---- MODULE Spec2Model ----
(***************************************************************************)
(* Running-server registry and message routing of the HTFlow VS Code       *)
(* extension (src/src/sidebarProvider.ts, src/src/extension.ts).           *)
(*                                                                         *)
(* One action is one synchronous run of extension code on the host's       *)
(* event loop: the part of a message handler up to its first await that    *)
(* really suspends, the continuation after such an await, a timer          *)
(* callback or a disposal callback.  startHTFlowServer and stopServer are  *)
(* declared async but hold no await, so their whole body runs inside the   *)
(* step of the handler that calls them.                                    *)
(***************************************************************************)
EXTENDS Integers, Sequences, FiniteSets, TLC

(***************************************************************************)
(* Bounds of the model.                                                    *)
(***************************************************************************)
MaxSteps == 4       \* steps of one behaviour
MaxTime == 1        \* last value of the millisecond clock Date.now() reads

(***************************************************************************)
(* JavaScript values carried by inbound messages.  A string is a sequence  *)
(* of one-character strings; a number is an integer part plus a flag for   *)
(* a non-zero fractional part (int + 0.5).                                 *)
(***************************************************************************)
Str(s) == [t |-> "str", s |-> s, int |-> 0, frac |-> FALSE]
Num(n) == [t |-> "num", s |-> <<>>, int |-> n, frac |-> FALSE]
NumHalf(n) == [t |-> "num", s |-> <<>>, int |-> n, frac |-> TRUE]
NaN == [t |-> "nan", s |-> <<>>, int |-> 0, frac |-> FALSE]
Undefined == [t |-> "undefined", s |-> <<>>, int |-> 0, frac |-> FALSE]

Digits == <<"0", "1", "2", "3", "4", "5", "6", "7", "8", "9">>
IsDigit(c) == \E i \in 1..10 : Digits[i] = c
DigitVal(c) == (CHOOSE i \in 1..10 : Digits[i] = c) - 1
IsSpace(c) == c = " "

\* String.prototype.trim
RECURSIVE TrimLeft(_)
TrimLeft(s) == IF s # <<>> /\ IsSpace(Head(s)) THEN TrimLeft(Tail(s)) ELSE s
RECURSIVE TrimRight(_)
TrimRight(s) ==
    IF s # <<>> /\ IsSpace(s[Len(s)]) THEN TrimRight(SubSeq(s, 1, Len(s) - 1)) ELSE s
Trim(s) == TrimRight(TrimLeft(s))

RECURSIVE DecVal(_)
DecVal(s) == IF s = <<>> THEN 0 ELSE 10 * DecVal(SubSeq(s, 1, Len(s) - 1)) + DigitVal(s[Len(s)])
AllDigits(s) == \A i \in 1..Len(s) : IsDigit(s[i])
DotAt(s) == IF \E i \in 1..Len(s) : s[i] = "." THEN CHOOSE i \in 1..Len(s) : s[i] = "." ELSE 0

\* StringToNumber on an unsigned decimal literal: digits, optionally "." digits.
UnsignedLit(s) ==
    LET d == DotAt(s)
        ip == IF d = 0 THEN s ELSE SubSeq(s, 1, d - 1)
        fp == IF d = 0 THEN <<>> ELSE SubSeq(s, d + 1, Len(s))
    IN  IF s = <<>> \/ ~AllDigits(ip) \/ ~AllDigits(fp) \/ (ip = <<>> /\ fp = <<>>)
        THEN NaN
        ELSE [t |-> "num", s |-> <<>>, int |-> DecVal(ip), frac |-> DecVal(fp) # 0]

\* -(int + frac/2) written again as an integer part plus a fractional flag.
Negate(v) ==
    IF v.t # "num" THEN v
    ELSE IF v.frac THEN [v EXCEPT !.int = -(v.int) - 1] ELSE [v EXCEPT !.int = -(v.int)]

\* Number(value): the ToNumber conversion.
ToNumber(v) ==
    CASE v.t = "num" -> v
      [] v.t = "nan" -> NaN
      [] v.t = "undefined" -> NaN
      [] v.t = "str" ->
            LET s == Trim(v.s)
            IN  IF s = <<>> THEN Num(0)
                ELSE IF Head(s) = "-" THEN Negate(UnsignedLit(Tail(s)))
                ELSE IF Head(s) = "+" THEN UnsignedLit(Tail(s))
                ELSE UnsignedLit(s)

\* ToBoolean: undefined, NaN, 0 and "" are falsy.
Truthy(v) ==
    CASE v.t = "num" -> v.int # 0 \/ v.frac
      [] v.t = "nan" -> FALSE
      [] v.t = "undefined" -> FALSE
      [] v.t = "str" -> v.s # <<>>

\* Number.isFinite: true of numbers only, without conversion.
IsFinite(v) == v.t = "num"

Min2(a, b) == IF a < b THEN a ELSE b
Max2(a, b) == IF a > b THEN a ELSE b

MinPort == 1
MaxPort == 65535

\* Variant: the floor of the number, without the two limits.
ClampPortUnclamped(v) == v.int
\* Math.max(1, Math.min(65535, Math.floor(n))) of a finite number.
ClampPort(v) == Max2(MinPort, Min2(MaxPort, v.int))

DEV == <<"d", "e", "v">>
START == <<"s", "t", "a", "r", "t">>
DefaultDevPort == 3050
DefaultStartPort == 3051
DefaultOtherPort == 3000

\* The mode's default port (startHTFlowServer).
DefaultPortOf(mode) ==
    IF mode = DEV THEN DefaultDevPort
    ELSE IF mode = START THEN DefaultStartPort ELSE DefaultOtherPort

\* normalizedPort of startHTFlowServer.
NormalizePort(port, mode) == IF IsFinite(port) THEN ClampPort(port) ELSE DefaultPortOf(mode)


(***************************************************************************)
(* State of the provider (sidebarProvider.ts 15-21) and of the host        *)
(* objects it holds.                                                       *)
(***************************************************************************)
VARIABLES
    runningServers,       \* _runningServers: entries in insertion order
    terminals,            \* _terminals: [serverId, terminal] in insertion order
    browserLiveServerId,  \* _browserLiveServerId, NoId when undefined
    view,                 \* _view is set
    currentPanel,         \* _currentPanel (the detached panel) is set
    browserPanel,         \* _browserPanel: a panel identity, NoPanel when undefined
    portMapping,          \* webview.options.portMapping of the browser panel
    disposed,             \* terminals the host has disposed
    now,                  \* the last value read from Date.now()
    inflight,             \* handlers suspended at an await, oldest first
    timers,               \* pending setTimeout open-in-browser callbacks (ports)
    active,               \* the extension has not been deactivated
    posted,               \* webview.postMessage calls of the last step
    termCalls,            \* terminal host calls of the last step
    lastOp,               \* the call the last step made, and what it returned
    captures,             \* captured commands whose child process has not settled
    hostPanels,           \* browser panels of the host: shown, and disposed with onDidDispose pending
    steps                 \* steps taken so far

vars == <<runningServers, terminals, browserLiveServerId, view, currentPanel,
          browserPanel, portMapping, disposed, now, inflight, timers, active,
          posted, termCalls, lastOp, captures, hostPanels, steps>>

NoId == <<>>
NoPanel == 0
NoTerminal == <<>>
NoEntry ==
    [serverId |-> NoId, port |-> 0, mode |-> <<>>, folder |-> <<>>, startTime |-> 0,
     terminal |-> NoTerminal, origin |-> "none"]

\* `${mode}-${normalizedPort}-${Date.now()}`
ServerIdOf(mode, port, time) == <<mode, port, time>>

(***************************************************************************)
(* Map operations, on sequences of records keyed by serverId.              *)
(***************************************************************************)
IndexOf(m, id) ==
    IF \E i \in 1..Len(m) : m[i].serverId = id
    THEN CHOOSE i \in 1..Len(m) : m[i].serverId = id
    ELSE 0
MapHas(m, id) == IndexOf(m, id) # 0
MapSet(m, rec) ==
    IF MapHas(m, rec.serverId) THEN [m EXCEPT ![IndexOf(m, rec.serverId)] = rec]
    ELSE Append(m, rec)
MapDelete(m, id) ==
    IF MapHas(m, id)
    THEN LET k == IndexOf(m, id) IN SubSeq(m, 1, k - 1) \o SubSeq(m, k + 1, Len(m))
    ELSE m
Keys(m) == {m[i].serverId : i \in 1..Len(m)}

GetServer(id) ==
    IF MapHas(runningServers, id) THEN runningServers[IndexOf(runningServers, id)] ELSE NoEntry
GetTerminal(id) ==
    IF MapHas(terminals, id) THEN terminals[IndexOf(terminals, id)].terminal ELSE NoTerminal

\* Variant: only the oldest entry is compared with the request.
FindRunningServerByPortFirstOnly(port, mode) ==
    IF /\ runningServers # <<>>
       /\ runningServers[1].port = port
       /\ (mode = <<>> \/ runningServers[1].mode = mode)
    THEN runningServers[1]
    ELSE NoEntry

\* Variant: the lookup compares the port only.
FindRunningServerByPortAnyMode(port, mode) ==
    IF \E i \in 1..Len(runningServers) : runningServers[i].port = port
    THEN runningServers[CHOOSE i \in 1..Len(runningServers) :
                            /\ runningServers[i].port = port
                            /\ \A j \in 1..(i - 1) : runningServers[j].port # port]
    ELSE NoEntry
\* Variant: the lookup never finds an entry.
FindRunningServerByPortNone(port, mode) == NoEntry
\* findRunningServerByPort: the first entry in insertion order with that port
\* and, when a mode is given, that mode.  NoEntry when there is none.
FindRunningServerByPort(port, mode) ==
    LET hit(i) == runningServers[i].port = port
                  /\ (mode = <<>> \/ runningServers[i].mode = mode)
    IN  IF \E i \in 1..Len(runningServers) : hit(i)
        THEN runningServers[CHOOSE i \in 1..Len(runningServers) :
                                hit(i) /\ \A j \in 1..(i - 1) : ~hit(j)]
        ELSE NoEntry

\* Variant: the port is appended without looking at the table.
EnsureBrowserPortMappingAppends(panel, mapping, port) ==
    IF panel = NoPanel THEN mapping
    ELSE Append(mapping, [webviewPort |-> port, extensionHostPort |-> port])
\* ensureBrowserPortMapping: the panel's mapping table after the call.
EnsureBrowserPortMapping(panel, mapping, port) ==
    IF panel = NoPanel THEN mapping
    ELSE IF \E i \in 1..Len(mapping) : mapping[i].extensionHostPort = port THEN mapping
    ELSE Append(mapping, [webviewPort |-> port, extensionHostPort |-> port])

\* Terminals a map or an entry holds.
Referenced(reg, terms) ==
    {reg[i].terminal : i \in 1..Len(reg)} \cup {terms[i].terminal : i \in 1..Len(terms)}
\* vscode.window.createTerminal: a terminal no reference designates.
\* It is named after the server it is created for.
FreshTerminal(serverId) ==
    LET known == Referenced(runningServers, terminals) \cup disposed
        n == CHOOSE k \in 1..(Cardinality(known) + 1) :
                 /\ <<serverId, k>> \notin known
                 /\ \A j \in 1..(k - 1) : <<serverId, j>> \in known
    IN  <<serverId, n>>

(***************************************************************************)
(* Outbound messages and terminal calls.                                   *)
(***************************************************************************)
Msg(to, command, serverId, port, mode, folder, startTime) ==
    [to |-> to, command |-> command, serverId |-> serverId, port |-> port,
     mode |-> mode, folder |-> folder, startTime |-> startTime]
ServerStartedMsg(to, e) ==
    Msg(to, "serverStarted", e.serverId, Num(e.port), e.mode, e.folder, e.startTime)
ServerStoppedMsg(to, id, port) == Msg(to, "serverStopped", id, port, <<>>, <<>>, 0)
LiveServerStartedMsg(id, port, mode) ==
    Msg("browser", "liveServerStarted", id, Num(port), mode, <<>>, 0)
LiveServerStoppedMsg == Msg("browser", "liveServerStopped", NoId, Undefined, <<>>, <<>>, 0)
LiveServerErrorMsg == Msg("browser", "liveServerError", NoId, Undefined, <<>>, <<>>, 0)

TermCall(op, terminal, text) == [op |-> op, terminal |-> terminal, text |-> text]
NoText == [form |-> "none", mode |-> <<>>, folder |-> <<>>, port |-> 0]
Interrupt == [form |-> "interrupt", mode |-> <<>>, folder |-> <<>>, port |-> 0]

\* The command line startHTFlowServer sends to the new terminal.
StartCommand(mode, folderValue, port, hasUserSpecifiedPort) ==
    IF mode = DEV /\ ~hasUserSpecifiedPort
    THEN [form |-> "npx htflow dev", mode |-> <<>>, folder |-> folderValue, port |-> 0]
    ELSE IF mode = START /\ ~hasUserSpecifiedPort
    THEN [form |-> "npx htflow serve", mode |-> <<>>, folder |-> folderValue, port |-> 0]
    ELSE [form |-> "npx htflow serve <mode> -p", mode |-> mode, folder |-> folderValue,
          port |-> port]

IfThen(c, s) == IF c THEN s ELSE <<>>


(***************************************************************************)
(* Host calls that can raise.  A step takes the call that raises as an     *)
(* input; "none" is the run in which every host call returns.  A call      *)
(* that raises has no effect of its own.                                   *)
(***************************************************************************)
StartStage(f) ==
    CASE f = "none" -> 0
      [] f = "createTerminal" -> 1
      [] f = "show" -> 2
      [] f = "sendText" -> 3
      [] f = "notify" -> 4
      [] f = "postView" -> 5
      [] f = "postBrowser" -> 6
StopStage(f) ==
    CASE f = "none" -> 0
      [] f = "sendText" -> 0
      [] f = "dispose" -> 1
      [] f = "postView" -> 2
      [] f = "postBrowser" -> 3
      [] f = "postLive" -> 4
      [] f = "notify" -> 5
\* The call of stage k was made and returned.
Passed(stage, k) == stage = 0 \/ stage > k

\* A handler suspended at its await: what it does next, what the awaited call
\* returned, and the browser panel whose handler it is.
\* The sidebar handlers ("plain") use nothing of the result.
Suspended(kind, ok, entry) ==
    IF kind = "plain" THEN [kind |-> kind, ok |-> TRUE, entry |-> NoEntry, panel |-> NoPanel]
    ELSE [kind |-> kind, ok |-> ok, entry |-> entry, panel |-> browserPanel]
Op(op, arg, ok, created, entry) ==
    [op |-> op, arg |-> arg, ok |-> ok, created |-> created, entry |-> entry,
     origin |-> "none", ws |-> "unread"]
\* A call of startHTFlowServer: also the origin it was given and what it read
\* from vscode.workspace.workspaceFolders ("unread" when it returned before).
StartOp(arg, ok, created, entry, origin, ws) ==
    [Op("start", arg, ok, created, entry) EXCEPT !.origin = origin, !.ws = ws]

(***************************************************************************)
(* startHTFlowServer, lines 1368-1516.  No await: one step.  `src` is the  *)
(* surface whose handler calls it, `kind` what that handler does after     *)
(* its await, `hasWorkspace` whether a workspace folder is open.           *)
(***************************************************************************)
\* What start was asked for, as its lookup sees it.
Pair(mode, port) == <<mode, port>>
PairOf(e) == Pair(e.mode, e.port)

\* Variant: the reuse path sends the start command to the terminal again.
ExistingTermCallsResend(existing) ==
    <<TermCall("show", existing.terminal, NoText),
      TermCall("sendText", existing.terminal, <<"n", "p", "x">>)>>
\* Lines 1385-1403: the host calls on the terminal of the entry found.
ExistingTermCalls(existing) == <<TermCall("show", existing.terminal, NoText)>>

\* Variant: a start tells the browser panel that the previous live-preview
\* target has stopped.
StartedPostsRetire(serverInfo, stage) ==
    IfThen(view /\ Passed(stage, 5), <<ServerStartedMsg("view", serverInfo)>>)
    \o IfThen(browserPanel # NoPanel /\ Passed(stage, 6),
              <<ServerStartedMsg("browser", serverInfo)>>)
    \o IfThen(browserPanel # NoPanel /\ browserLiveServerId # NoId /\ Passed(stage, 6),
              <<LiveServerStoppedMsg>>)
\* Lines 1473-1492: serverStarted goes to the sidebar view and to the browser
\* panel, each when it is set.
StartedPosts(serverInfo, stage) ==
    IfThen(view /\ Passed(stage, 5), <<ServerStartedMsg("view", serverInfo)>>)
    \o IfThen(browserPanel # NoPanel /\ Passed(stage, 6),
              <<ServerStartedMsg("browser", serverInfo)>>)

\* Variant: a reused entry becomes the live-preview target whatever the origin.
TargetAfterReuseAlways(existing, origin) == existing.serverId
\* Lines 1389-1390
TargetAfterReuse(existing, origin) ==
    IF origin = "browser" THEN existing.serverId ELSE browserLiveServerId

\* Variant: a reused entry takes the origin of the request that reuses it.
ServersAfterReuseRewritten(existing, origin) ==
    MapSet(runningServers, [existing EXCEPT !.origin = origin])
\* Lines 1382-1403: the existing-entry branch writes no field of the entry.
ServersAfterReuse(existing, origin) == runningServers

StartExisting(pair, existing, origin, fail, src, kind) ==
    LET isBrowserOrigin == origin = "browser"
        shown == fail # "show"
        ret == IF fail = "none" THEN existing ELSE NoEntry
    IN  /\ fail \in {"none", "show", "notify"}
        /\ browserLiveServerId' =
              IF shown THEN TargetAfterReuse(existing, origin) ELSE browserLiveServerId
        /\ portMapping' =
              IF shown /\ isBrowserOrigin
              THEN EnsureBrowserPortMapping(browserPanel, portMapping, existing.port)
              ELSE portMapping
        /\ termCalls' = IfThen(shown, ExistingTermCalls(existing))
        /\ posted' = <<>>
        /\ lastOp' = StartOp(pair, ret # NoEntry, FALSE, ret, origin, "unread")
        /\ inflight' = Append(inflight, Suspended(kind, ret # NoEntry, ret))
        /\ runningServers' = ServersAfterReuse(existing, origin)
        /\ UNCHANGED <<terminals, disposed, timers, now>>

\* Variant: the no-workspace path records a terminal before it gives up.
StartNoWorkspaceSpawns(pair, origin, src, kind) ==
    /\ termCalls' = <<>>
    /\ posted' = <<>>
    /\ terminals' = Append(terminals, [serverId |-> ServerIdOf(pair[1], pair[2], now),
                                       terminal |-> FreshTerminal(ServerIdOf(pair[1], pair[2], now))])
    /\ lastOp' = StartOp(pair, FALSE, FALSE, NoEntry, origin, "missing")
    /\ inflight' = Append(inflight, Suspended(kind, FALSE, NoEntry))
    /\ UNCHANGED <<runningServers, browserLiveServerId, portMapping, disposed, timers, now>>
\* Lines 1405-1411: no workspace folder is open.
StartNoWorkspace(pair, origin, src, kind) ==
    /\ termCalls' = <<>>
    /\ posted' = <<>>
    /\ lastOp' = StartOp(pair, FALSE, FALSE, NoEntry, origin, "missing")
    /\ inflight' = Append(inflight, Suspended(kind, FALSE, NoEntry))
    /\ UNCHANGED <<runningServers, terminals, browserLiveServerId, portMapping, disposed,
                   timers, now>>

\* Variant: every new server gets an open-in-browser timer.
TimersAfterStartAlways(port, origin) == Append(timers, port)
\* Lines 1494-1500: setTimeout for origins other than browser.
TimersAfterStart(port, origin) == IF origin # "browser" THEN Append(timers, port) ELSE timers

\* `clock` is what Date.now() returns: the clock never runs backwards.
StartNew(normalizedPort, mode, folder, origin, hasUserSpecifiedPort, clock, fail, src, kind) ==
    LET isBrowserOrigin == origin = "browser"
        stage == StartStage(fail)
        serverId == ServerIdOf(mode, normalizedPort, clock)
        terminal == FreshTerminal(serverId)
        folderValue == IF folder.t = "str" THEN Trim(folder.s) ELSE <<>>
        serverInfo == [serverId |-> serverId, port |-> normalizedPort, mode |-> mode,
                       folder |-> folderValue, startTime |-> clock, terminal |-> terminal,
                       origin |-> origin]
        command == StartCommand(mode, folderValue, normalizedPort, hasUserSpecifiedPort)
        created == Passed(stage, 1)
        ret == IF fail = "none" THEN serverInfo ELSE NoEntry
    IN  /\ fail \in {"none", "createTerminal", "show", "sendText", "notify", "postView",
                     "postBrowser"}
        /\ fail = "postView" => view
        /\ fail = "postBrowser" => browserPanel # NoPanel
        /\ clock \in now..MaxTime
        /\ now' = clock
        /\ terminals' =
              IF created THEN MapSet(terminals, [serverId |-> serverId, terminal |-> terminal])
              ELSE terminals
        /\ runningServers' = IF created THEN MapSet(runningServers, serverInfo) ELSE runningServers
        /\ browserLiveServerId' =
              IF created /\ isBrowserOrigin THEN serverId ELSE browserLiveServerId
        /\ termCalls' =
              IfThen(created, <<TermCall("createTerminal", terminal, NoText)>>)
              \o IfThen(Passed(stage, 2), <<TermCall("show", terminal, NoText)>>)
              \o IfThen(Passed(stage, 3), <<TermCall("sendText", terminal, command)>>)
        /\ posted' = StartedPosts(serverInfo, stage)
        /\ timers' = IF fail = "none" THEN TimersAfterStart(normalizedPort, origin) ELSE timers
        /\ portMapping' =
              IF fail = "none" /\ isBrowserOrigin
              THEN EnsureBrowserPortMapping(browserPanel, portMapping, normalizedPort)
              ELSE portMapping
        /\ lastOp' = StartOp(Pair(mode, normalizedPort), ret # NoEntry, created, ret, origin, "open")
        /\ inflight' = Append(inflight, Suspended(kind, ret # NoEntry, ret))
        /\ UNCHANGED disposed

StartHTFlowServer(portArg, mode, folder, origin, hasUserSpecifiedPort, hasWorkspace, clock, fail, src, kind) ==
    LET port == IF portArg.t = "undefined" THEN Num(DefaultOtherPort) ELSE portArg
        normalizedPort == NormalizePort(port, mode)
        existing == FindRunningServerByPort(normalizedPort, mode)
    IN  IF existing # NoEntry
        THEN clock = now /\ StartExisting(Pair(mode, normalizedPort), existing, origin, fail, src, kind)
        ELSE IF ~hasWorkspace THEN clock = now /\ fail = "none" /\ StartNoWorkspace(Pair(mode, normalizedPort), origin, src, kind)
        ELSE StartNew(normalizedPort, mode, folder, origin, hasUserSpecifiedPort, clock, fail,
                      src, kind)

(***************************************************************************)
(* stopServer, lines 1735-1815.  No await: one step.                       *)
(***************************************************************************)
\* Lines 1751-1752
StopTerminalOf(serverId) ==
    IF MapHas(terminals, serverId) THEN GetTerminal(serverId) ELSE GetServer(serverId).terminal

\* Variant: stop empties the terminal map instead of removing one terminal.
TerminalsAfterStopCleared(serverId) == <<>>
\* Variant: stop leaves the terminal map as it was.
TerminalsAfterStopKept(serverId) == terminals
\* Line 1763
TerminalsAfterStop(serverId) == MapDelete(terminals, serverId)

\* Variant: stop leaves the registry as it was.
ServersAfterStopKept(serverId) == runningServers
\* Line 1767
ServersAfterStop(serverId) == MapDelete(runningServers, serverId)

\* Variant: stop clears the live-preview target whichever server it stops.
TargetAfterStopAlways(serverId) == NoId
\* Lines 1785-1786
TargetAfterStop(serverId) == IF browserLiveServerId = serverId THEN NoId ELSE browserLiveServerId
\* Lines 1769-1792: serverStopped goes to the sidebar view and to the browser
\* panel, each when it is set; liveServerStopped to the browser panel when
\* the server was the live-preview target.
StoppedPosts(serverId, resolvedPort, stage) ==
    IfThen(view /\ Passed(stage, 2), <<ServerStoppedMsg("view", serverId, resolvedPort)>>)
    \o IfThen(browserPanel # NoPanel /\ Passed(stage, 3),
              <<ServerStoppedMsg("browser", serverId, resolvedPort)>>)
    \o IfThen(browserLiveServerId = serverId /\ browserPanel # NoPanel /\ Passed(stage, 4),
              <<LiveServerStoppedMsg>>)

StopNotFound(serverId, src, kind) ==
    /\ termCalls' = <<>>
    /\ posted' = <<>>
    /\ lastOp' = Op("stop", serverId, FALSE, FALSE, NoEntry)
    /\ inflight' = Append(inflight, Suspended(kind, FALSE, NoEntry))
    /\ UNCHANGED <<runningServers, terminals, browserLiveServerId, disposed>>

StopFound(serverId, port, fail, src, kind) ==
    LET serverInfo == GetServer(serverId)
        resolvedPort ==
            IF port.t # "undefined" THEN port
            ELSE IF serverInfo # NoEntry THEN Num(serverInfo.port) ELSE Undefined
        terminal == StopTerminalOf(serverId)
        stage == StopStage(fail)
        hasTerminal == terminal # NoTerminal
        terminalDone == hasTerminal => Passed(stage, 1)
        isTarget == browserLiveServerId = serverId
        terminalsAfter ==
            IF hasTerminal /\ Passed(stage, 1) THEN TerminalsAfterStop(serverId) ELSE terminals
        serversAfter == IF terminalDone THEN ServersAfterStop(serverId) ELSE runningServers
        disposedAfter == IF hasTerminal /\ Passed(stage, 1) THEN disposed \cup {terminal} ELSE disposed
    IN  /\ fail \in {"none", "sendText", "dispose", "postView", "postBrowser", "postLive",
                     "notify"}
        /\ fail \in {"sendText", "dispose"} => hasTerminal
        /\ fail = "postView" => view
        /\ fail = "postBrowser" => browserPanel # NoPanel
        /\ fail = "postLive" => isTarget /\ browserPanel # NoPanel
        /\ terminals' = terminalsAfter
        /\ runningServers' = serversAfter
        /\ disposed' = disposedAfter
        /\ termCalls' =
              IfThen(hasTerminal /\ fail # "sendText" /\ terminal \notin disposed,
                     <<TermCall("sendText", terminal, Interrupt)>>)
              \o IfThen(hasTerminal /\ Passed(stage, 1), <<TermCall("dispose", terminal, NoText)>>)
        /\ posted' = StoppedPosts(serverId, resolvedPort, stage)
        /\ browserLiveServerId' =
              IF Passed(stage, 3) THEN TargetAfterStop(serverId) ELSE browserLiveServerId
        /\ lastOp' = Op("stop", serverId, fail \in {"none", "sendText"}, FALSE, serverInfo)
        /\ inflight' = Append(inflight, Suspended(kind, fail \in {"none", "sendText"}, NoEntry))

\* Variant: stop cancels the pending open-in-browser timers.
TimersAfterStopCancelled(serverId) == <<>>
\* stopServer holds no clearTimeout: the pending timers stay.
TimersAfterStop(serverId) == timers

\* Variant: stop unmaps the port of the server it stops.
MappingAfterStopUnmapped(serverId) ==
    SelectSeq(portMapping, LAMBDA m : m.extensionHostPort # GetServer(serverId).port)
\* stopServer does not touch the port mapping of the browser panel.
MappingAfterStop(serverId) == portMapping

\* Variant: stop goes on without the lookup in the two maps.
StopServerUnchecked(serverId, port, fail, src, kind) ==
    /\ StopFound(serverId, port, fail, src, kind)
    /\ UNCHANGED <<portMapping, timers, now>>
StopServer(serverId, port, fail, src, kind) ==
    /\ IF ~MapHas(runningServers, serverId) /\ ~MapHas(terminals, serverId)
       THEN fail = "none" /\ StopNotFound(serverId, src, kind)
       ELSE StopFound(serverId, port, fail, src, kind)
    /\ timers' = TimersAfterStop(serverId)
    /\ portMapping' = MappingAfterStop(serverId)
    /\ UNCHANGED now


\* The host's panels after panel.dispose() or the user closing the panel,
\* with the panel's onDidDispose callback run.
HostClosed(panel) == [hostPanels EXCEPT !.open = @ \ {panel}]
\* The host's panels after vscode.window.createWebviewPanel, 568-579.
HostOpened(panels, panel) == [panels EXCEPT !.open = @ \cup {panel}]

(***************************************************************************)
(* dispose, lines 1817-1838, called by deactivate (extension.ts 391-398).  *)
(* `failAt` is the position in _terminals of the terminal whose dispose    *)
(* raises, 0 when none does.                                               *)
(***************************************************************************)
DisposedBy(failAt) ==
    {terminals[i].terminal : i \in 1..(IF failAt = 0 THEN Len(terminals) ELSE failAt - 1)}

Dispose(failAt) ==
    LET cleared == failAt = 0
        terminalsAfter == IF cleared THEN <<>> ELSE terminals
        serversAfter == IF cleared THEN <<>> ELSE runningServers
    IN  /\ active
        /\ failAt \in 0..Len(terminals)
        /\ active' = FALSE
        /\ browserPanel' = NoPanel
        /\ hostPanels' = HostClosed(browserPanel)
        /\ portMapping' = <<>>
        /\ terminals' = terminalsAfter
        /\ runningServers' = serversAfter
        /\ disposed' = disposed \cup DisposedBy(failAt)
        /\ termCalls' =
              [i \in 1..(IF cleared THEN Len(terminals) ELSE failAt - 1) |->
                  TermCall("dispose", terminals[i].terminal, NoText)]
        /\ posted' = <<>>
        /\ lastOp' = Op("dispose", NoId, cleared, FALSE, NoEntry)
        /\ UNCHANGED <<browserLiveServerId, view, currentPanel, now, inflight, timers, captures>>

(***************************************************************************)
(* Surfaces.                                                               *)
(***************************************************************************)
\* A step of the host that calls nothing the last-step record describes.
Quiet ==
    /\ posted' = <<>>
    /\ termCalls' = <<>>
    /\ lastOp' = Op("host", NoId, TRUE, FALSE, NoEntry)

\* resolveWebviewView, lines 39-55: the sidebar view is shown.
ResolveWebviewView ==
    /\ active /\ ~view
    /\ view' = TRUE
    /\ Quiet
    /\ UNCHANGED <<runningServers, terminals, browserLiveServerId, currentPanel, browserPanel, hostPanels,
                   portMapping, disposed, now, inflight, timers, active, captures>>

\* htflow.openRightPanel, extension.ts 226-270: create the detached panel, or
\* reveal the one there is.
OpenRightPanel ==
    /\ active
    /\ currentPanel' = TRUE
    /\ Quiet
    /\ UNCHANGED <<runningServers, terminals, browserLiveServerId, view, browserPanel, hostPanels,
                   portMapping, disposed, now, inflight, timers, active, captures>>

\* onDidDispose of the detached panel, extension.ts 260-264.
CloseRightPanel ==
    /\ active /\ currentPanel
    /\ currentPanel' = FALSE
    /\ Quiet
    /\ UNCHANGED <<runningServers, terminals, browserLiveServerId, view, browserPanel, hostPanels,
                   portMapping, disposed, now, inflight, timers, active, captures>>

SurfaceOpen(src) ==
    CASE src = "view" -> view
      [] src = "panel" -> currentPanel
      [] src = "browser" -> browserPanel # NoPanel

\* A panel identity the provider does not hold.
MaxPanels == 2
FreshPanel == CHOOSE p \in 1..MaxPanels : p # browserPanel

\* openBrowserPanel, lines 561-592.  Disposing the old panel runs its
\* onDidDispose callback (585-588) inside dispose(), before the new panel is
\* recorded.
OpenBrowserPanel(src) ==
    /\ active /\ SurfaceOpen(src)
    /\ browserPanel' = FreshPanel
    /\ hostPanels' = HostOpened(HostClosed(browserPanel), FreshPanel)
    /\ portMapping' = <<>>
    /\ Quiet
    /\ UNCHANGED <<runningServers, terminals, browserLiveServerId, view, currentPanel,
                   disposed, now, inflight, timers, active, captures>>

\* The user closes the browser panel: its onDidDispose callback, 585-588.
CloseBrowserPanel ==
    /\ active /\ browserPanel # NoPanel
    /\ browserPanel' = NoPanel
    /\ hostPanels' = HostClosed(browserPanel)
    /\ portMapping' = <<>>
    /\ Quiet
    /\ UNCHANGED <<runningServers, terminals, browserLiveServerId, view, currentPanel,
                   disposed, now, inflight, timers, active, captures>>


(***************************************************************************)
(* Message handlers of the sidebar view (resolveWebviewView, 56-304) and   *)
(* of the detached panel (attachMessageHandler, 308-559): the two switch   *)
(* statements hold the same code for these commands, `src` names the one   *)
(* that runs.                                                              *)
(***************************************************************************)
\* value.toString().trim() !== ""
NonBlank(v) == IF v.t = "str" THEN Trim(v.s) # <<>> ELSE TRUE

Deliverable(src) == active /\ SurfaceOpen(src)

\* case "htflow.serve.dev", 166-183 and 420-437
ServeDev(src, port, folder, hasWorkspace, clock, fail) ==
    LET devPort == IF Truthy(port) THEN ToNumber(port) ELSE Num(DefaultDevPort)
        hasUserDevPort == Truthy(port) /\ NonBlank(port)
    IN  /\ Deliverable(src)
        /\ StartHTFlowServer(devPort, DEV, folder, "sidebar", hasUserDevPort, hasWorkspace,
                             clock, fail, src, "plain")
        /\ UNCHANGED <<view, currentPanel, browserPanel, hostPanels, active, captures>>

\* case "htflow.serve.prod", 185-202 and 439-456
ServeProd(src, port, folder, hasWorkspace, clock, fail) ==
    LET prodPort == IF Truthy(port) THEN ToNumber(port) ELSE Num(DefaultStartPort)
        hasUserProdPort == Truthy(port) /\ NonBlank(port)
    IN  /\ Deliverable(src)
        /\ StartHTFlowServer(prodPort, START, folder, "sidebar", hasUserProdPort,
                             hasWorkspace, clock, fail, src, "plain")
        /\ UNCHANGED <<view, currentPanel, browserPanel, hostPanels, active, captures>>

\* case "htflow.serve.custom", 204-212 and 458-466: message.port || 3000
ServeCustom(src, port, hasWorkspace, clock, fail) ==
    /\ Deliverable(src)
    /\ StartHTFlowServer(IF Truthy(port) THEN port ELSE Num(DefaultOtherPort), DEV, Undefined,
                         "sidebar", FALSE, hasWorkspace, clock, fail, src, "plain")
    /\ UNCHANGED <<view, currentPanel, browserPanel, hostPanels, active, captures>>

\* case "startLiveServer", 127-135 and 381-389: message.port || 3000
StartLiveServer(src, port, hasWorkspace, clock, fail) ==
    /\ Deliverable(src)
    /\ StartHTFlowServer(IF Truthy(port) THEN port ELSE Num(DefaultOtherPort), DEV, Undefined,
                         "browser", FALSE, hasWorkspace, clock, fail, src, "plain")
    /\ UNCHANGED <<view, currentPanel, browserPanel, hostPanels, active, captures>>

\* case "stopServer", 265-267 and 519-521
StopServerMsg(src, serverId, port, fail) ==
    /\ Deliverable(src)
    /\ StopServer(serverId, port, fail, src, "plain")
    /\ UNCHANGED <<view, currentPanel, browserPanel, hostPanels, active, captures>>

(***************************************************************************)
(* Message handlers of the browser panel, lines 594-794.                   *)
(***************************************************************************)

\* Variant: browserReady reports the target without mapping its port.
BrowserReadyUnmapped ==
    LET runningServer == GetServer(browserLiveServerId)
        live == browserLiveServerId # NoId /\ runningServer # NoEntry
    IN  /\ active /\ browserPanel # NoPanel
        /\ browserLiveServerId' = IF live THEN browserLiveServerId ELSE NoId
        /\ posted' =
              IF live
              THEN <<LiveServerStartedMsg(browserLiveServerId, runningServer.port,
                                          runningServer.mode)>>
              ELSE <<LiveServerStoppedMsg>>
        /\ termCalls' = <<>>
        /\ lastOp' = Op("browserReady", browserLiveServerId, live, FALSE, runningServer)
        /\ UNCHANGED <<runningServers, terminals, view, currentPanel, browserPanel, hostPanels, disposed,
                       now, inflight, timers, active, captures, portMapping>>
\* case "browserReady", 597-619
BrowserReady ==
    LET runningServer == GetServer(browserLiveServerId)
        live == browserLiveServerId # NoId /\ runningServer # NoEntry
    IN  /\ active /\ browserPanel # NoPanel
        /\ portMapping' =
              IF live THEN EnsureBrowserPortMapping(browserPanel, portMapping, runningServer.port)
              ELSE portMapping
        /\ browserLiveServerId' = IF live THEN browserLiveServerId ELSE NoId
        /\ posted' =
              IF live
              THEN <<LiveServerStartedMsg(browserLiveServerId, runningServer.port,
                                          runningServer.mode)>>
              ELSE <<LiveServerStoppedMsg>>
        /\ termCalls' = <<>>
        /\ lastOp' = Op("browserReady", browserLiveServerId, live, FALSE, runningServer)
        /\ UNCHANGED <<runningServers, terminals, view, currentPanel, browserPanel, hostPanels, disposed,
                       now, inflight, timers, active, captures>>

\* case "startLiveServer", 621-661
BrowserStartLiveServer(port, mode, folder, hasWorkspace, clock, fail) ==
    LET parsedPort == ToNumber(port)
        requestedPort ==
            IF IsFinite(parsedPort) THEN Num(ClampPort(parsedPort)) ELSE Num(DefaultOtherPort)
        requestedMode == IF mode.t = "str" /\ Trim(mode.s) # <<>> THEN Trim(mode.s) ELSE DEV
    IN  /\ Deliverable("browser")
        /\ StartHTFlowServer(requestedPort, requestedMode, folder, "browser", TRUE,
                             hasWorkspace, clock, fail, "browser", "browserStart")
        /\ UNCHANGED <<view, currentPanel, browserPanel, hostPanels, active, captures>>

\* case "stopLiveServer", 663-699
BrowserStopLiveServer(serverId, port, fail) ==
    LET parsedPort == ToNumber(port)
        resolvedPort == IF IsFinite(parsedPort) THEN Num(ClampPort(parsedPort)) ELSE Undefined
        candidateId ==
            IF serverId # NoId THEN serverId
            ELSE IF browserLiveServerId # NoId THEN browserLiveServerId
            ELSE IF resolvedPort.t = "num"
            THEN FindRunningServerByPort(resolvedPort.int, <<>>).serverId
            ELSE NoId
    IN  /\ Deliverable("browser")
        /\ IF candidateId = NoId
           THEN /\ fail = "none"
                /\ posted' = <<LiveServerErrorMsg>>
                /\ termCalls' = <<>>
                /\ lastOp' = Op("stopLiveServer", NoId, FALSE, FALSE, NoEntry)
                /\ UNCHANGED <<runningServers, terminals, browserLiveServerId, portMapping,
                               disposed, inflight, timers, now>>
           ELSE StopServer(candidateId, resolvedPort, fail, "browser", "browserStop")
        /\ UNCHANGED <<view, currentPanel, browserPanel, hostPanels, active, captures>>

(***************************************************************************)
(* The rest of a handler, after its await.  A message for a panel that     *)
(* was disposed meanwhile reaches no surface.                              *)
(***************************************************************************)
Resume ==
    /\ inflight # <<>>
    /\ LET h == Head(inflight)
           reaches == h.panel # NoPanel /\ h.panel = browserPanel
       IN  /\ posted' =
                 CASE h.kind = "browserStart" /\ h.ok ->
                        IfThen(reaches, <<LiveServerStartedMsg(h.entry.serverId, h.entry.port,
                                                               h.entry.mode)>>)
                   [] h.kind = "browserStart" /\ ~h.ok -> IfThen(reaches, <<LiveServerErrorMsg>>)
                   [] h.kind = "browserStop" /\ ~h.ok -> IfThen(reaches, <<LiveServerErrorMsg>>)
                   [] OTHER -> <<>>
           /\ lastOp' = Op("resume", NoId, h.ok, FALSE, h.entry)
    /\ inflight' = Tail(inflight)
    /\ termCalls' = <<>>
    /\ UNCHANGED <<runningServers, terminals, browserLiveServerId, view, currentPanel,
                   browserPanel, hostPanels, portMapping, disposed, now, timers, active, captures>>

\* The setTimeout callback of startHTFlowServer, 1495-1500: vscode.open of
\* http://localhost:<port>.  A timer runs when no continuation is pending.
OpenInBrowserTimer ==
    /\ timers # <<>> /\ inflight = <<>>
    /\ timers' = Tail(timers)
    /\ posted' = <<>>
    /\ termCalls' = <<>>
    /\ lastOp' = Op("openInBrowser", NoId, TRUE, FALSE, [NoEntry EXCEPT !.port = Head(timers)])
    /\ UNCHANGED <<runningServers, terminals, browserLiveServerId, view, currentPanel,
                   browserPanel, hostPanels, portMapping, disposed, now, inflight, active, captures>>

\* deactivate, extension.ts 391-398
Deactivate(failAt) == Dispose(failAt)

(***************************************************************************)
(* Inputs.                                                                 *)
(***************************************************************************)
Panels == {"view", "panel"}
Clock == 0..MaxTime
PortInputs == {Undefined, Num(DefaultDevPort)}
FolderInputs == {Undefined, Str(<<" ", "a">>)}
ModeInputs == {Undefined, Str(<<"s", "t", "a", "r", "t", " ">>)}
PortHints == {Undefined, Num(DefaultOtherPort)}
BogusId == ServerIdOf(DEV, MinPort, MaxTime + 1)
StopIds ==
    Keys(runningServers) \cup {NoId, BogusId}
    \cup (IF lastOp.op = "stop" THEN {lastOp.arg} ELSE {})

Init ==
    /\ runningServers = <<>>
    /\ terminals = <<>>
    /\ browserLiveServerId = NoId
    /\ view = FALSE
    /\ currentPanel = FALSE
    /\ browserPanel = NoPanel
    /\ portMapping = <<>>
    /\ disposed = {}
    /\ now = 0
    /\ inflight = <<>>
    /\ timers = <<>>
    /\ active = TRUE
    /\ posted = <<>>
    /\ termCalls = <<>>
    /\ lastOp = Op("host", NoId, TRUE, FALSE, NoEntry)
    /\ captures = <<>>
    /\ hostPanels = [open |-> {}, closing |-> {}]
    /\ steps = 0

\* Every step counts against the bound on the length of a behaviour.
Step == steps < MaxSteps /\ steps' = steps + 1

Next ==
    \/ Step /\ ResolveWebviewView
    \/ Step /\ OpenRightPanel
    \/ Step /\ CloseRightPanel
    \/ Step /\ \E src \in Panels : OpenBrowserPanel(src)
    \/ Step /\ CloseBrowserPanel
    \/ Step /\ \E src \in Panels, port \in PortInputs, folder \in FolderInputs,
                   ws \in BOOLEAN, clock \in Clock :
                  ServeDev(src, port, folder, ws, clock, "none")
    \/ Step /\ \E src \in Panels, port \in PortInputs, folder \in FolderInputs,
                   ws \in BOOLEAN, clock \in Clock :
                  ServeProd(src, port, folder, ws, clock, "none")
    \/ Step /\ \E src \in Panels, port \in PortInputs, ws \in BOOLEAN, clock \in Clock :
                  ServeCustom(src, port, ws, clock, "none")
    \/ Step /\ \E src \in Panels, port \in PortInputs, ws \in BOOLEAN, clock \in Clock :
                  StartLiveServer(src, port, ws, clock, "none")
    \/ Step /\ \E src \in Panels, id \in StopIds, port \in PortHints :
                  StopServerMsg(src, id, port, "none")
    \/ Step /\ BrowserReady
    \/ Step /\ \E port \in PortInputs, mode \in ModeInputs, folder \in FolderInputs,
                   ws \in BOOLEAN, clock \in Clock :
                  BrowserStartLiveServer(port, mode, folder, ws, clock, "none")
    \/ Step /\ \E id \in StopIds, port \in PortHints : BrowserStopLiveServer(id, port, "none")
    \/ Step /\ Resume
    \/ Step /\ OpenInBrowserTimer
    \/ Step /\ Deactivate(0)

Spec == Init /\ [][Next]_vars

(***************************************************************************)
(* The same handlers, run against a host whose calls can raise: each step  *)
(* takes the call that raises, if any, as one more input.                  *)
(***************************************************************************)
StartFaults == {"none", "createTerminal", "show", "sendText", "notify", "postView", "postBrowser"}
StopFaults == {"none", "sendText", "dispose", "postView", "postBrowser", "postLive", "notify"}

NextFault ==
    \/ Step /\ ResolveWebviewView
    \/ Step /\ OpenRightPanel
    \/ Step /\ CloseRightPanel
    \/ Step /\ \E src \in Panels : OpenBrowserPanel(src)
    \/ Step /\ CloseBrowserPanel
    \/ Step /\ \E src \in Panels, port \in PortInputs, folder \in FolderInputs,
                   ws \in BOOLEAN, clock \in Clock, fail \in StartFaults :
                  ServeDev(src, port, folder, ws, clock, fail)
    \/ Step /\ \E src \in Panels, port \in PortInputs, folder \in FolderInputs,
                   ws \in BOOLEAN, clock \in Clock, fail \in StartFaults :
                  ServeProd(src, port, folder, ws, clock, fail)
    \/ Step /\ \E src \in Panels, port \in PortInputs, ws \in BOOLEAN, clock \in Clock,
                   fail \in StartFaults :
                  ServeCustom(src, port, ws, clock, fail)
    \/ Step /\ \E src \in Panels, port \in PortInputs, ws \in BOOLEAN, clock \in Clock,
                   fail \in StartFaults :
                  StartLiveServer(src, port, ws, clock, fail)
    \/ Step /\ \E src \in Panels, id \in StopIds, port \in PortHints, fail \in StopFaults :
                  StopServerMsg(src, id, port, fail)
    \/ Step /\ BrowserReady
    \/ Step /\ \E port \in PortInputs, mode \in ModeInputs, folder \in FolderInputs,
                   ws \in BOOLEAN, clock \in Clock, fail \in StartFaults :
                  BrowserStartLiveServer(port, mode, folder, ws, clock, fail)
    \/ Step /\ \E id \in StopIds, port \in PortHints, fail \in StopFaults :
                  BrowserStopLiveServer(id, port, fail)
    \/ Step /\ Resume
    \/ Step /\ OpenInBrowserTimer
    \/ Step /\ \E failAt \in 0..Len(terminals) : Deactivate(failAt)

SpecFault == Init /\ [][NextFault]_vars

(***************************************************************************)
(* The start handlers alone, on every kind of port value a message can     *)
(* carry: none, a number (zero, negative, fractional, above 65535), a      *)
(* string (empty, blank, numeric, signed, fractional, non-numeric).        *)
(***************************************************************************)
MaxPortSteps == 3   \* steps of one behaviour of SpecPorts
WidePorts ==
    {Undefined, Num(0), Num(99999), Num(-1), NumHalf(80), Num(DefaultDevPort),
     Str(<<>>), Str(<<" ">>), Str(<<"8", "0">>), Str(<<"-", "7">>), Str(<<"1", ".", "5">>),
     Str(<<"a">>)}
WideModes == {Undefined, Str(<<" ">>), Str(<<"d", "e", "v">>), Str(<<"s", "t", "a", "r", "t", " ">>), Str(<<"x">>)}

StepPorts == steps < MaxPortSteps /\ steps' = steps + 1

NextPorts ==
    \/ StepPorts /\ ResolveWebviewView
    \/ StepPorts /\ OpenRightPanel
    \/ StepPorts /\ \E src \in Panels : OpenBrowserPanel(src)
    \/ StepPorts /\ \E src \in Panels, port \in WidePorts : ServeDev(src, port, Undefined, TRUE, now, "none")
    \/ StepPorts /\ \E src \in Panels, port \in WidePorts : ServeProd(src, port, Undefined, TRUE, now, "none")
    \/ StepPorts /\ \E src \in Panels, port \in WidePorts : ServeCustom(src, port, TRUE, now, "none")
    \/ StepPorts /\ \E src \in Panels, port \in WidePorts : StartLiveServer(src, port, TRUE, now, "none")
    \/ StepPorts /\ \E port \in WidePorts, mode \in WideModes :
                       BrowserStartLiveServer(port, mode, Undefined, TRUE, now, "none")

SpecPorts == Init /\ [][NextPorts]_vars

(***************************************************************************)
(* The event loop with its queues drained: handler steps are counted, the  *)
(* continuations and the timer callbacks they leave behind are not, and    *)
(* the loop runs every pending continuation and every due timer.           *)
(***************************************************************************)
MaxTimerSteps == 4  \* handler and host steps of one behaviour of SpecTimer
StepTimer == steps < MaxTimerSteps /\ steps' = steps + 1
RunResume == Resume /\ UNCHANGED steps
RunOpenInBrowserTimer == OpenInBrowserTimer /\ UNCHANGED steps

NextTimer ==
    \/ StepTimer /\ ResolveWebviewView
    \/ StepTimer /\ \E src \in Panels, port \in PortInputs, ws \in BOOLEAN, clock \in Clock :
                       ServeDev(src, port, Undefined, ws, clock, "none")
    \/ StepTimer /\ \E src \in Panels, port \in PortInputs, ws \in BOOLEAN, clock \in Clock :
                       ServeProd(src, port, Undefined, ws, clock, "none")
    \/ StepTimer /\ \E src \in Panels, id \in StopIds : StopServerMsg(src, id, Undefined, "none")
    \/ StepTimer /\ Deactivate(0)
    \/ RunResume
    \/ RunOpenInBrowserTimer

SpecTimer ==
    Init /\ [][NextTimer]_vars /\ WF_vars(RunResume) /\ WF_vars(RunOpenInBrowserTimer)

(***************************************************************************)
(* Captured commands: executeHTFlowCommandForPanel, lines 1170-1330, and   *)
(* executeHTFlowAuditForPanel, lines 1065-1168.  A call echoes the command *)
(* to a new terminal, starts the child process and suspends; the handler   *)
(* goes on when the child process settles.                                 *)
(***************************************************************************)
\* a || b
OrElse(a, b) == IF Truthy(a) THEN a ELSE b

\* folder && folder.trim(): the folder a command line ends with, if any
FolderSuffix(folder) == IF folder.t = "str" THEN Trim(folder.s) ELSE <<>>
CommandLine(form, folderValue) ==
    [form |-> form, mode |-> <<>>, folder |-> folderValue, port |-> 0]

\* The switch of lines 1187-1218.
CommandTextOf(command, folder) ==
    CASE command = "init" -> CommandLine("npx htflow init", <<>>)
      [] command = "validate" -> CommandLine("npx htflow validate", <<>>)
      [] command = "build" -> CommandLine("npx htflow build", <<>>)
      [] command = "audit --html" -> CommandLine("npx htflow audit --html", <<>>)
      [] command = "version" -> CommandLine("npx htflow --version", <<>>)
      [] command = "mcp-install" -> CommandLine("npx htflow mcp-install", <<>>)
      [] command = "mcp-uninstall" -> CommandLine("npx htflow mcp-uninstall", <<>>)
      [] command = "mcp-status" -> CommandLine("npx htflow mcp-status", <<>>)
      [] OTHER -> CommandLine("npx htflow " \o command, FolderSuffix(folder))
\* Lines 1081-1086.
AuditTextOf(folder) == CommandLine("npx htflow audit", FolderSuffix(folder))

NoOutputCommand == Str(<<"Command completed successfully (no output)">>)
NoOutputAudit == Str(<<"No output received">>)
NoOutputFailure == Str(<<"Command failed with no output">>)

\* vscode.window.createTerminal for a command: a terminal of that name which
\* no pending capture echoes to.  No map of the provider records it.
CaptureTerminal(name) ==
    LET used == {captures[i].terminal : i \in 1..Len(captures)}
    IN  <<name, CHOOSE k \in 1..(Len(captures) + 1) :
                    <<name, k>> \notin used /\ \A j \in 1..(k - 1) : <<name, j>> \in used>>

Capture(variant, commandText, terminal, startTime) ==
    [variant |-> variant, commandText |-> commandText, terminal |-> terminal,
     startTime |-> startTime]
CaptureOp(arg, ok, ws) == [Op("capture", arg, ok, ok, NoEntry) EXCEPT !.ws = ws]

\* Variant: the terminal is sent the bare tool name.
EchoCallsBare(terminal, commandText) ==
    <<TermCall("createTerminal", terminal, NoText), TermCall("show", terminal, NoText),
      TermCall("sendText", terminal, CommandLine("npx htflow", <<>>))>>
\* Lines 1223-1229 and 1091-1097: createTerminal, show, sendText(commandText).
EchoCalls(terminal, commandText) ==
    <<TermCall("createTerminal", terminal, NoText), TermCall("show", terminal, NoText),
      TermCall("sendText", terminal, commandText)>>

\* Lines 1181-1184 and 1075-1078: no workspace folder is open.
CaptureNoWorkspace(arg) ==
    /\ posted' = <<>>
    /\ termCalls' = <<>>
    /\ lastOp' = CaptureOp(arg, FALSE, "missing")
    /\ UNCHANGED <<runningServers, terminals, browserLiveServerId, portMapping, disposed, now,
                   inflight, timers, captures>>

\* executeHTFlowCommandForPanel up to its await, lines 1175-1242.
ExecuteHTFlowCommandForPanel(command, folder, hasWorkspace, clock) ==
    IF ~hasWorkspace THEN clock = now /\ CaptureNoWorkspace(command)
    ELSE LET commandText == CommandTextOf(command, folder)
             terminal == CaptureTerminal("HTFlow: " \o command)
         IN  /\ clock \in now..MaxTime
             /\ now' = clock
             /\ termCalls' = EchoCalls(terminal, commandText)
             /\ captures' = Append(captures, Capture("commandResults", commandText, terminal, clock))
             /\ posted' = <<>>
             /\ lastOp' = CaptureOp(command, TRUE, "open")
             /\ UNCHANGED <<runningServers, terminals, browserLiveServerId, portMapping,
                            disposed, inflight, timers>>

\* executeHTFlowAuditForPanel up to its await, lines 1069-1108.
ExecuteHTFlowAuditForPanel(folder, hasWorkspace) ==
    IF ~hasWorkspace THEN CaptureNoWorkspace("audit")
    ELSE LET commandText == AuditTextOf(folder)
             terminal == CaptureTerminal("HTFlow: audit")
         IN  /\ termCalls' = EchoCalls(terminal, commandText)
             /\ captures' = Append(captures, Capture("auditResults", commandText, terminal, now))
             /\ posted' = <<>>
             /\ lastOp' = CaptureOp("audit", TRUE, "open")
             /\ UNCHANGED <<runningServers, terminals, browserLiveServerId, portMapping,
                            disposed, now, inflight, timers>>

\* What the child process settled with: execPromise resolves with stdout and
\* stderr, or rejects with an error carrying stdout, stderr, message and code.
Outcome(ok, stdout, stderr, message, code) ==
    [ok |-> ok, stdout |-> stdout, stderr |-> stderr, message |-> message, code |-> code]

CommandResultsMsg(to, data) == [to |-> to, command |-> "commandResults", data |-> data]
AuditResultsMsg(to, output) == [to |-> to, command |-> "auditResults", output |-> output]

\* Variant: stderr is preferred to stdout.
CapturedOutputStderrFirst(stdout, stderr, sentinel) == OrElse(stderr, OrElse(stdout, sentinel))
\* Lines 1245-1246 and 1110: stdout || stderr || sentinel
CapturedOutput(stdout, stderr, sentinel) == OrElse(stdout, OrElse(stderr, sentinel))

\* Lines 1253-1259.
CommandData(c, r, duration) ==
    [command |-> c.commandText,
     output |-> CapturedOutput(r.stdout, r.stderr, NoOutputCommand),
     success |-> TRUE, exitCode |-> Num(0), duration |-> duration]
\* Lines 1285-1303: stdout || stderr || message || sentinel, code || 1
CommandErrorData(c, r, duration) ==
    [command |-> c.commandText,
     output |-> OrElse(r.stdout, OrElse(r.stderr, OrElse(r.message, NoOutputFailure))),
     error |-> TRUE, success |-> FALSE, exitCode |-> OrElse(r.code, Num(1)),
     duration |-> duration]

\* Lines 1262-1277, 1305-1316, 1117-1132 and 1142-1153: the result is posted
\* to this.webviewView and to this.currentPanel, each if it is set.
ResultPosts(msg) ==
    IfThen(view, <<[msg EXCEPT !.to = "view"]>>)
    \o IfThen(currentPanel, <<[msg EXCEPT !.to = "panel"]>>)

\* The rest of the two capture handlers, after the await of execPromise:
\* lines 1244-1321 and 1110-1159.
ExecSettles(i, r, clock) ==
    /\ i \in 1..Len(captures)
    /\ LET c == captures[i]
           duration == clock - c.startTime
           commandMsg ==
               CommandResultsMsg("none", IF r.ok THEN CommandData(c, r, duration)
                                         ELSE CommandErrorData(c, r, duration))
           errorOutput == OrElse(r.stdout, OrElse(r.stderr, r.message))
           auditMsg ==
               AuditResultsMsg("none", IF r.ok
                                       THEN CapturedOutput(r.stdout, r.stderr, NoOutputAudit)
                                       ELSE errorOutput)
       IN  /\ IF c.variant = "commandResults"
              THEN /\ clock \in now..MaxTime
                   /\ posted' = ResultPosts(commandMsg)
              ELSE /\ clock = now
                   /\ posted' = IF r.ok \/ Truthy(errorOutput) THEN ResultPosts(auditMsg) ELSE <<>>
           /\ lastOp' = [Op("settle", r, r.ok, FALSE, NoEntry) EXCEPT !.ws = c.variant]
    /\ now' = clock
    /\ captures' = SubSeq(captures, 1, i - 1) \o SubSeq(captures, i + 1, Len(captures))
    /\ termCalls' = <<>>
    /\ UNCHANGED <<runningServers, terminals, browserLiveServerId, view, currentPanel,
                   browserPanel, hostPanels, portMapping, disposed, inflight, timers, active>>

(***************************************************************************)
(* The file watcher, lines 914-959.                                        *)
(***************************************************************************)
FileChangedMsg(to, file) == [to |-> to, command |-> "fileChanged", filePath |-> file]

\* Lines 942-958: the browser panel, then the sidebar view.
FileChangedPosts(file) ==
    IfThen(browserPanel # NoPanel, <<FileChangedMsg("browser", file)>>)
    \o IfThen(view, <<FileChangedMsg("view", file)>>)

\* notifyFileChanged, run by the watcher's onDidChange, onDidCreate and
\* onDidDelete; dispose() disposes the watcher.
NotifyFileChanged(file) ==
    /\ active
    /\ posted' = FileChangedPosts(file)
    /\ termCalls' = <<>>
    /\ lastOp' = Op("fileChanged", file, TRUE, FALSE, NoEntry)
    /\ UNCHANGED <<runningServers, terminals, browserLiveServerId, view, currentPanel,
                   browserPanel, hostPanels, portMapping, disposed, now, inflight, timers, active, captures>>

(***************************************************************************)
(* The two command dispatch tables: the switch of the sidebar view's       *)
(* handler, lines 66-291, and the switch of attachMessageHandler, lines    *)
(* 320-545.  Each is written out from its own lines as the call the case   *)
(* makes: the method and its arguments.                                    *)
(***************************************************************************)
Call(op, args) == [op |-> op, args |-> args]
NoCall == Call("none", <<>>)

\* The switch of resolveWebviewView's handler, lines 66-291.
ViewCall(message) ==
    LET c == message.command
    IN  CASE c = "ready" -> Call("showInformationMessage", <<"HTFlow panel loaded successfully!">>)
          [] c = "openBrowserPanel" -> Call("openBrowserPanel", <<>>)
          [] c = "htflow.init" ->
                Call("executeHTFlowCommandForPanel",
                     <<"init", "HTFlow project initialized successfully!">>)
          [] c = "htflow.validate" ->
                Call("executeHTFlowCommandForPanel",
                     <<"validate", "Validation completed successfully!">>)
          [] c = "htflow.audit" ->
                IF message.displayInPanel
                THEN Call("executeHTFlowAuditForPanel",
                          <<message.folder, "Audit completed successfully!">>)
                ELSE Call("executeHTFlowCommandWithFolder",
                          <<"audit", message.folder, "Audit completed successfully!">>)
          [] c = "refreshWorkspace" -> Call("executeCommand", <<"workbench.action.reloadWindow">>)
          [] c = "openFile" ->
                IF Truthy(message.path) THEN Call("openFile", <<message.path>>) ELSE NoCall
          [] c = "startLiveServer" ->
                Call("startHTFlowServer",
                     <<OrElse(message.port, Num(DefaultOtherPort)), DEV, Undefined, "browser",
                       FALSE>>)
          [] c = "toolAction" -> Call("handleToolAction", <<message.tool>>)
          [] c = "settingChange" ->
                Call("handleSettingChange", <<message.setting, message.value>>)
          [] c = "validateFile" ->
                IF Truthy(message.path) THEN Call("validateSpecificFile", <<message.path>>)
                ELSE NoCall
          [] c = "htflow.audit.html" ->
                Call("executeHTFlowCommandForPanel",
                     <<"audit --html", "HTML audit report generated successfully!">>)
          [] c = "htflow.build" ->
                Call("executeHTFlowCommandForPanel", <<"build", "Project built successfully!">>)
          [] c = "htflow.serve.dev" ->
                Call("startHTFlowServer",
                     <<IF Truthy(message.port) THEN ToNumber(message.port)
                       ELSE Num(DefaultDevPort),
                       DEV, message.folder, "sidebar",
                       Truthy(message.port) /\ NonBlank(message.port)>>)
          [] c = "htflow.serve.prod" ->
                Call("startHTFlowServer",
                     <<IF Truthy(message.port) THEN ToNumber(message.port)
                       ELSE Num(DefaultStartPort),
                       START, message.folder, "sidebar",
                       Truthy(message.port) /\ NonBlank(message.port)>>)
          [] c = "htflow.serve.custom" ->
                Call("startHTFlowServer",
                     <<OrElse(message.port, Num(DefaultOtherPort)), DEV, Undefined, "sidebar",
                       FALSE>>)
          [] c = "htflow.version" ->
                Call("executeHTFlowCommandForPanel",
                     <<"version", "HTFlow version checked successfully!">>)
          [] c = "htflow.mcp-install" ->
                Call("executeHTFlowCommandForPanel",
                     <<"mcp-install", "MCP configuration installed successfully!">>)
          [] c = "htflow.mcp-uninstall" ->
                Call("executeHTFlowCommandForPanel",
                     <<"mcp-uninstall", "MCP configuration uninstalled successfully!">>)
          [] c = "htflow.mcp-status" ->
                Call("executeHTFlowCommandForPanel",
                     <<"mcp-status", "MCP status checked successfully!">>)
          [] c = "npm.install" ->
                Call("executeNpmCommand",
                     <<"install -g htflow-cli", "HTFlow CLI installed successfully!">>)
          [] c = "npm.update" ->
                Call("executeNpmCommand",
                     <<"install -g htflow-cli@latest", "HTFlow CLI updated successfully!">>)
          [] c = "npm.uninstall" ->
                Call("executeNpmCommand",
                     <<"uninstall -g htflow-cli", "HTFlow CLI uninstalled successfully!">>)
          [] c = "stopServer" -> Call("stopServer", <<message.serverId, message.port>>)
          [] c = "openUrl" ->
                IF Truthy(message.url) THEN Call("executeCommand", <<"vscode.open", message.url>>)
                ELSE NoCall
          [] c = "openExternal" ->
                IF Truthy(message.url) THEN Call("openExternal", <<message.url>>) ELSE NoCall
          [] c = "openIndexInBrowser" -> Call("openIndexInBrowser", <<>>)
          [] OTHER -> Call("showInformationMessage", <<"HTFlow: " \o c>>)

\* Variant: the detached panel starts a custom server as the browser's.
PanelCallCustomAsBrowser(message) ==
    IF message.command = "htflow.serve.custom"
    THEN Call("startHTFlowServer",
              <<OrElse(message.port, Num(DefaultOtherPort)), DEV, Undefined, "browser", FALSE>>)
    ELSE ViewCall(message)
\* The switch of attachMessageHandler, lines 320-545.
PanelCall(message) ==
    LET c == message.command
    IN  CASE c = "ready" -> Call("showInformationMessage", <<"HTFlow panel loaded successfully!">>)
          [] c = "openBrowserPanel" -> Call("openBrowserPanel", <<>>)
          [] c = "htflow.init" ->
                Call("executeHTFlowCommandForPanel",
                     <<"init", "HTFlow project initialized successfully!">>)
          [] c = "htflow.validate" ->
                Call("executeHTFlowCommandForPanel",
                     <<"validate", "Validation completed successfully!">>)
          [] c = "htflow.audit" ->
                IF message.displayInPanel
                THEN Call("executeHTFlowAuditForPanel",
                          <<message.folder, "Audit completed successfully!">>)
                ELSE Call("executeHTFlowCommandWithFolder",
                          <<"audit", message.folder, "Audit completed successfully!">>)
          [] c = "refreshWorkspace" -> Call("executeCommand", <<"workbench.action.reloadWindow">>)
          [] c = "openFile" ->
                IF Truthy(message.path) THEN Call("openFile", <<message.path>>) ELSE NoCall
          [] c = "startLiveServer" ->
                Call("startHTFlowServer",
                     <<OrElse(message.port, Num(DefaultOtherPort)), DEV, Undefined, "browser",
                       FALSE>>)
          [] c = "toolAction" -> Call("handleToolAction", <<message.tool>>)
          [] c = "settingChange" ->
                Call("handleSettingChange", <<message.setting, message.value>>)
          [] c = "validateFile" ->
                IF Truthy(message.path) THEN Call("validateSpecificFile", <<message.path>>)
                ELSE NoCall
          [] c = "htflow.audit.html" ->
                Call("executeHTFlowCommandForPanel",
                     <<"audit --html", "HTML audit report generated successfully!">>)
          [] c = "htflow.build" ->
                Call("executeHTFlowCommandForPanel", <<"build", "Project built successfully!">>)
          [] c = "htflow.serve.dev" ->
                Call("startHTFlowServer",
                     <<IF Truthy(message.port) THEN ToNumber(message.port)
                       ELSE Num(DefaultDevPort),
                       DEV, message.folder, "sidebar",
                       Truthy(message.port) /\ NonBlank(message.port)>>)
          [] c = "htflow.serve.prod" ->
                Call("startHTFlowServer",
                     <<IF Truthy(message.port) THEN ToNumber(message.port)
                       ELSE Num(DefaultStartPort),
                       START, message.folder, "sidebar",
                       Truthy(message.port) /\ NonBlank(message.port)>>)
          [] c = "htflow.serve.custom" ->
                Call("startHTFlowServer",
                     <<OrElse(message.port, Num(DefaultOtherPort)), DEV, Undefined, "sidebar",
                       FALSE>>)
          [] c = "htflow.version" ->
                Call("executeHTFlowCommandForPanel",
                     <<"version", "HTFlow version checked successfully!">>)
          [] c = "htflow.mcp-install" ->
                Call("executeHTFlowCommandForPanel",
                     <<"mcp-install", "MCP configuration installed successfully!">>)
          [] c = "htflow.mcp-uninstall" ->
                Call("executeHTFlowCommandForPanel",
                     <<"mcp-uninstall", "MCP configuration uninstalled successfully!">>)
          [] c = "htflow.mcp-status" ->
                Call("executeHTFlowCommandForPanel",
                     <<"mcp-status", "MCP status checked successfully!">>)
          [] c = "npm.install" ->
                Call("executeNpmCommand",
                     <<"install -g htflow-cli", "HTFlow CLI installed successfully!">>)
          [] c = "npm.update" ->
                Call("executeNpmCommand",
                     <<"install -g htflow-cli@latest", "HTFlow CLI updated successfully!">>)
          [] c = "npm.uninstall" ->
                Call("executeNpmCommand",
                     <<"uninstall -g htflow-cli", "HTFlow CLI uninstalled successfully!">>)
          [] c = "stopServer" -> Call("stopServer", <<message.serverId, message.port>>)
          [] c = "openUrl" ->
                IF Truthy(message.url) THEN Call("executeCommand", <<"vscode.open", message.url>>)
                ELSE NoCall
          [] c = "openExternal" ->
                IF Truthy(message.url) THEN Call("openExternal", <<message.url>>) ELSE NoCall
          [] c = "openIndexInBrowser" -> Call("openIndexInBrowser", <<>>)
          [] OTHER -> Call("showInformationMessage", <<"HTFlow: " \o c>>)

(***************************************************************************)
(* The calls of the tables that keep nothing in the provider.              *)
(***************************************************************************)
\* A call that creates a terminal, shows it and sends it one command line,
\* and keeps no reference to it: executeHTFlowCommandWithFolder 1014-1054,
\* validateSpecificFile 1567-1579, executeNpmCommand 1614-1638.
TerminalOnly(op, name, commandText) ==
    /\ termCalls' = EchoCalls(CaptureTerminal(name), commandText)
    /\ posted' = <<>>
    /\ lastOp' = Op(op, NoId, TRUE, FALSE, NoEntry)
    /\ UNCHANGED <<runningServers, terminals, browserLiveServerId, view, currentPanel,
                   browserPanel, hostPanels, portMapping, disposed, now, inflight, timers, active, captures>>

\* A call that only asks the host for something: a notification, a command
\* of the workbench, a configuration update.
HostOnly(op, arg) ==
    /\ termCalls' = <<>>
    /\ posted' = <<>>
    /\ lastOp' = Op(op, arg, TRUE, FALSE, NoEntry)
    /\ UNCHANGED <<runningServers, terminals, browserLiveServerId, view, currentPanel,
                   browserPanel, hostPanels, portMapping, disposed, now, inflight, timers, active, captures>>

OpenUrlMsg == [to |-> "browser", command |-> "openUrl"]
\* openIndexInBrowser, lines 1698-1733: `exists` is what fs.existsSync says
\* of index.html.
OpenIndexInBrowser(hasWorkspace, exists) ==
    /\ termCalls' = <<>>
    /\ posted' = IfThen(hasWorkspace /\ exists /\ browserPanel # NoPanel, <<OpenUrlMsg>>)
    /\ lastOp' = Op("openIndexInBrowser", NoId, hasWorkspace /\ exists, FALSE, NoEntry)
    /\ UNCHANGED <<runningServers, terminals, browserLiveServerId, view, currentPanel,
                   browserPanel, hostPanels, portMapping, disposed, now, inflight, timers, active, captures>>

\* The body of a case: the call it makes, run to its first await or its end.
Invoke(call, src, hasWorkspace, clock) ==
    LET a == call.args
        here == clock = now
    IN  CASE call.op = "startHTFlowServer" ->
                /\ StartHTFlowServer(a[1], a[2], a[3], a[4], a[5], hasWorkspace, clock, "none",
                                     src, "plain")
                /\ UNCHANGED <<view, currentPanel, browserPanel, hostPanels, active, captures>>
          [] call.op = "stopServer" ->
                /\ here /\ hasWorkspace
                /\ StopServer(a[1], a[2], "none", src, "plain")
                /\ UNCHANGED <<view, currentPanel, browserPanel, hostPanels, active, captures>>
          [] call.op = "openBrowserPanel" -> here /\ hasWorkspace /\ OpenBrowserPanel(src)
          [] call.op = "executeHTFlowCommandForPanel" ->
                /\ ExecuteHTFlowCommandForPanel(a[1], Undefined, hasWorkspace, clock)
                /\ UNCHANGED <<view, currentPanel, browserPanel, hostPanels, active>>
          [] call.op = "executeHTFlowAuditForPanel" ->
                /\ here
                /\ ExecuteHTFlowAuditForPanel(a[1], hasWorkspace)
                /\ UNCHANGED <<view, currentPanel, browserPanel, hostPanels, active>>
          [] call.op = "executeHTFlowCommandWithFolder" ->
                /\ here /\ hasWorkspace
                /\ TerminalOnly(call.op, "HTFlow CLI",
                                CommandLine("npx htflow " \o a[1],
                                            IF Truthy(a[2]) THEN FolderSuffix(a[2]) ELSE <<>>))
          [] call.op = "validateSpecificFile" ->
                /\ here
                /\ IF hasWorkspace
                   THEN TerminalOnly(call.op, "HTFlow Validate",
                                     CommandLine("npx htflow validate", a[1].s))
                   ELSE HostOnly(call.op, NoId)
          [] call.op = "executeNpmCommand" ->
                /\ here /\ hasWorkspace
                /\ TerminalOnly(call.op, "NPM HTFlow", CommandLine("npm " \o a[1], <<>>))
          [] call.op = "openIndexInBrowser" ->
                here /\ \E exists \in BOOLEAN : OpenIndexInBrowser(hasWorkspace, exists)
          [] call.op = "showInformationMessage" -> here /\ hasWorkspace /\ HostOnly(call.op, a[1])
          [] OTHER -> here /\ hasWorkspace /\ HostOnly("host", NoId)

\* The handler of the sidebar view, lines 56-304.
OnViewMessage(message, hasWorkspace, clock) ==
    Deliverable("view") /\ Invoke(ViewCall(message), "view", hasWorkspace, clock)
\* The handler attachMessageHandler gives the detached panel, lines 309-558.
OnPanelMessage(message, hasWorkspace, clock) ==
    Deliverable("panel") /\ Invoke(PanelCall(message), "panel", hasWorkspace, clock)

(***************************************************************************)
(* Messages of the two surfaces.                                           *)
(***************************************************************************)
Blank ==
    [command |-> "", port |-> Undefined, folder |-> Undefined, displayInPanel |-> FALSE,
     path |-> Undefined, url |-> Undefined, tool |-> "", setting |-> "", value |-> FALSE,
     serverId |-> NoId]
BareCommands ==
    {"ready", "openBrowserPanel", "htflow.init", "htflow.validate", "refreshWorkspace",
     "htflow.audit.html", "htflow.build", "htflow.version", "htflow.mcp-install",
     "htflow.mcp-uninstall", "htflow.mcp-status", "npm.install", "npm.update",
     "npm.uninstall", "openIndexInBrowser", "htflow.deploy", ""}
TextInputs == {Undefined, Str(<<>>), Str(<<"a">>)}
\* Every command of the tables, and two no table has, with its payload.
AllMessages ==
    {[Blank EXCEPT !.command = c] : c \in BareCommands}
    \cup {[Blank EXCEPT !.command = "htflow.audit", !.folder = f, !.displayInPanel = d] :
             f \in FolderInputs, d \in BOOLEAN}
    \cup {[Blank EXCEPT !.command = c, !.path = p] :
             c \in {"openFile", "validateFile"}, p \in TextInputs}
    \cup {[Blank EXCEPT !.command = c, !.url = u] :
             c \in {"openUrl", "openExternal"}, u \in TextInputs}
    \cup {[Blank EXCEPT !.command = c, !.port = p] :
             c \in {"startLiveServer", "htflow.serve.custom"}, p \in PortInputs}
    \cup {[Blank EXCEPT !.command = c, !.port = p, !.folder = f] :
             c \in {"htflow.serve.dev", "htflow.serve.prod"}, p \in PortInputs,
             f \in FolderInputs}
    \cup {[Blank EXCEPT !.command = "toolAction", !.tool = t] : t \in {"css-optimizer", "x"}}
    \cup {[Blank EXCEPT !.command = "settingChange", !.setting = "autoValidate", !.value = v] :
             v \in BOOLEAN}
    \cup {[Blank EXCEPT !.command = "stopServer", !.serverId = id, !.port = p] :
             id \in StopIds, p \in PortHints}

\* The messages the surfaces send in the runs of the captured commands.
CaptureCommands ==
    {"htflow.init", "htflow.version", "htflow.audit", "htflow.serve.dev", "stopServer",
     "openBrowserPanel", "validateFile", "openIndexInBrowser", "htflow.deploy"}
CaptureMessages ==
    {m \in AllMessages :
        /\ m.command \in CaptureCommands
        /\ m.command = "htflow.audit" => m.folder # Undefined
        /\ m.command = "htflow.serve.dev" => m.folder = Undefined /\ m.port = Undefined
        /\ m.command = "stopServer" => m.port = Undefined
        /\ m.command = "validateFile" => m.path = Str(<<"a">>)}

OutputInputs == {Str(<<>>), Str(<<"o">>)}
ErrorInputs == {Str(<<>>), Str(<<"e">>)}
CodeInputs == {Undefined, Num(2)}
\* What execPromise settles with.  The error of a failed child process always
\* has a message.
Outcomes ==
    {Outcome(TRUE, o, e, Undefined, Undefined) : o \in OutputInputs, e \in ErrorInputs}
    \cup {Outcome(FALSE, o, e, Str(<<"m">>), c) :
             o \in OutputInputs, e \in ErrorInputs, c \in CodeInputs}
FileInputs == {"index.html"}

MaxCaptureSteps == 4
StepCapture == steps < MaxCaptureSteps /\ steps' = steps + 1

NextCapture ==
    \/ StepCapture /\ ResolveWebviewView
    \/ StepCapture /\ OpenRightPanel
    \/ StepCapture /\ CloseRightPanel
    \/ StepCapture /\ CloseBrowserPanel
    \/ StepCapture /\ \E message \in CaptureMessages, ws \in BOOLEAN, clock \in Clock :
                         OnViewMessage(message, ws, clock)
    \/ StepCapture /\ \E message \in CaptureMessages, ws \in BOOLEAN, clock \in Clock :
                         OnPanelMessage(message, ws, clock)
    \/ StepCapture /\ \E i \in 1..Len(captures), r \in Outcomes, clock \in Clock :
                         ExecSettles(i, r, clock)
    \/ StepCapture /\ \E file \in FileInputs : NotifyFileChanged(file)
    \/ StepCapture /\ Resume
    \/ StepCapture /\ OpenInBrowserTimer
    \/ StepCapture /\ Deactivate(0)

SpecCapture == Init /\ [][NextCapture]_vars

(***************************************************************************)
(* The handlers of the live preview: the browser panel's messages and the  *)
(* stop message of the sidebar, with the continuations of the handlers     *)
(* running between them.                                                   *)
(***************************************************************************)
MaxLiveSteps == 4
StepLive == steps < MaxLiveSteps /\ steps' = steps + 1

NextLive ==
    \/ StepLive /\ ResolveWebviewView
    \/ StepLive /\ OpenBrowserPanel("view")
    \/ StepLive /\ CloseBrowserPanel
    \/ StepLive /\ BrowserReady
    \/ StepLive /\ \E port \in PortInputs, mode \in ModeInputs, ws \in BOOLEAN, clock \in Clock :
                      BrowserStartLiveServer(port, mode, Undefined, ws, clock, "none")
    \/ StepLive /\ \E id \in StopIds, port \in PortHints : BrowserStopLiveServer(id, port, "none")
    \/ StepLive /\ \E id \in StopIds : StopServerMsg("view", id, Undefined, "none")
    \/ RunResume

SpecLive == Init /\ [][NextLive]_vars

(***************************************************************************)
(* Replacing the browser panel when the host runs the onDidDispose         *)
(* callback of a disposed panel in a task of its own, after the handler    *)
(* that called panel.dispose() has returned.                               *)
(***************************************************************************)
\* Panel identities neither the host nor the provider holds.
UnusedPanels == (1..MaxPanels) \ (hostPanels.open \cup hostPanels.closing \cup {browserPanel})

\* openBrowserPanel, lines 561-592: dispose() of the old panel (563-565)
\* closes it and leaves its callback pending; the new panel is created
\* (568-579) and recorded (583).
OpenBrowserPanelQueued(src) ==
    /\ active /\ SurfaceOpen(src)
    /\ UnusedPanels # {}
    /\ LET panel == CHOOSE p \in UnusedPanels : \A q \in UnusedPanels : p <= q
           pending == IF browserPanel \in hostPanels.open THEN {browserPanel} ELSE {}
       IN  /\ hostPanels' = [open |-> (hostPanels.open \ pending) \cup {panel},
                             closing |-> hostPanels.closing \cup pending]
           /\ browserPanel' = panel
    /\ portMapping' = <<>>
    /\ Quiet
    /\ UNCHANGED <<runningServers, terminals, browserLiveServerId, view, currentPanel,
                   disposed, now, inflight, timers, active, captures>>

\* The callback registered at 585-588, run for the disposed panel p: it
\* clears _browserPanel whichever panel the field designates.
OnDidDispose(p) ==
    /\ active /\ p \in hostPanels.closing
    /\ hostPanels' = [hostPanels EXCEPT !.closing = @ \ {p}]
    /\ browserPanel' = NoPanel
    /\ Quiet
    /\ UNCHANGED <<runningServers, terminals, browserLiveServerId, view, currentPanel,
                   portMapping, disposed, now, inflight, timers, active, captures>>

MaxReplaceSteps == 5  \* handler and host steps of one behaviour of SpecReplace
StepReplace == steps < MaxReplaceSteps /\ steps' = steps + 1

NextReplace ==
    \/ StepReplace /\ ResolveWebviewView
    \/ StepReplace /\ OpenBrowserPanelQueued("view")
    \/ StepReplace /\ \E p \in 1..MaxPanels : OnDidDispose(p)
    \/ StepReplace /\ \E port \in PortInputs, clock \in Clock :
                         ServeDev("view", port, Undefined, TRUE, clock, "none")
    \/ RunResume
    \/ RunOpenInBrowserTimer

SpecReplace == Init /\ [][NextReplace]_vars

(***************************************************************************)
(* Properties.                                                             *)
(***************************************************************************)
EntriesFor(pair) == {i \in 1..Len(runningServers) : PairOf(runningServers[i]) = pair}
TerminalsFor(pair) ==
    {i \in 1..Len(terminals) :
        terminals[i].serverId # NoId
        /\ Pair(terminals[i].serverId[1], terminals[i].serverId[2]) = pair}
Posts(to, command) == {i \in 1..Len(posted) : posted[i].to = to /\ posted[i].command = command}
CallsOf(op) == {i \in 1..Len(termCalls) : termCalls[i].op = op}
Surfaces == {"view", "panel", "browser"}

\* C1: after any sequence of start, stop and teardown operations the registry
\* holds at most one entry for each (port, mode) pair.
C1_OneEntryPerPortMode ==
    \A i, j \in 1..Len(runningServers) :
        PairOf(runningServers[i]) = PairOf(runningServers[j]) => i = j
\* A start has just matched an entry while the registry holds two.
C1_Witness ==
    lastOp.op = "start" /\ lastOp.ok /\ ~lastOp.created /\ Len(runningServers) = 2

\* C2: when a start for a (port, mode) is delivered right after another start
\* for the same pair, before the first handler has resumed, and returns an
\* entry, then exactly one registry entry and one terminal exist for the pair,
\* the second call returned what the first did, and resuming the suspended
\* handlers changes neither map.
C2_BackToBackStarts ==
    [][/\ (/\ lastOp.op = "start" /\ lastOp'.op = "start"
           /\ lastOp'.arg = lastOp.arg
           /\ Len(inflight') >= 2
           /\ lastOp'.ok)
          => /\ Cardinality({i \in 1..Len(runningServers') :
                                PairOf(runningServers'[i]) = lastOp'.arg}) = 1
             /\ Cardinality({i \in 1..Len(terminals') :
                                Pair(terminals'[i].serverId[1], terminals'[i].serverId[2])
                                    = lastOp'.arg}) = 1
             /\ (lastOp.ok => lastOp'.entry = lastOp.entry)
       /\ lastOp'.op = "resume" => UNCHANGED <<runningServers, terminals>>]_vars
\* Two handlers are suspended, both delivered in the two steps just taken, and
\* the second one reused the entry of the first.
C2_Witness ==
    /\ steps = 3 /\ Len(inflight) = 2
    /\ lastOp.op = "start" /\ lastOp.ok /\ ~lastOp.created
    /\ Cardinality(EntriesFor(lastOp.arg)) = 1 /\ Cardinality(TerminalsFor(lastOp.arg)) = 1

\* C3: a start for a (port, mode) the registry holds an entry for returns that
\* entry, creates no terminal, sends no command and leaves both maps as they
\* were; a start that creates an entry returns the entry it recorded.
C3_RepeatedStartReturnsFirst ==
    [][/\ (lastOp'.op = "start" /\ EntriesFor(lastOp'.arg) # {})
          => /\ lastOp'.ok /\ ~lastOp'.created
             /\ \E i \in EntriesFor(lastOp'.arg) : lastOp'.entry = runningServers[i]
             /\ \A i \in 1..Len(termCalls') : termCalls'[i].op = "show"
             /\ UNCHANGED <<runningServers, terminals>>
       /\ (lastOp'.op = "start" /\ lastOp'.created /\ lastOp'.ok)
          => \E i \in 1..Len(runningServers') : runningServers'[i] = lastOp'.entry]_vars
\* A second start has returned the entry made by the first.
C3_Witness ==
    /\ lastOp.op = "start" /\ lastOp.ok /\ ~lastOp.created
    /\ \E i \in 1..Len(runningServers) : runningServers[i] = lastOp.entry
    /\ termCalls # <<>>

\* C4: in every reachable state the browser live-preview target is unset or is
\* a key of the registry.
C4_TargetInRegistry ==
    browserLiveServerId = NoId \/ MapHas(runningServers, browserLiveServerId)

\* C5: after stop(id) returns true, id is in neither the registry nor the
\* terminal map; a stop(id) that follows a successful stop(id) returns false,
\* as does every stop of an identifier in neither map.
C5_StopRemoves ==
    [][/\ (lastOp'.op = "stop" /\ lastOp'.ok)
          => ~MapHas(runningServers', lastOp'.arg) /\ ~MapHas(terminals', lastOp'.arg)
       /\ (lastOp.op = "stop" /\ lastOp.ok /\ lastOp'.op = "stop" /\ lastOp'.arg = lastOp.arg)
          => ~lastOp'.ok]_vars
\* stop(id) has just returned false for an identifier a start had issued.
C5_Witness ==
    /\ lastOp.op = "stop" /\ ~lastOp.ok
    /\ lastOp.arg \notin {NoId, BogusId}
    /\ ~MapHas(runningServers, lastOp.arg) /\ ~MapHas(terminals, lastOp.arg)

\* C6: stop(id) for an identifier in neither the registry nor the terminal map
\* returns false, posts no serverStopped and no liveServerStopped, and leaves
\* the registry, the terminal map and the live-preview target unchanged.
C6_StopUnknown ==
    [][(/\ lastOp'.op = "stop"
        /\ ~MapHas(runningServers, lastOp'.arg) /\ ~MapHas(terminals, lastOp'.arg))
       => /\ ~lastOp'.ok
          /\ \A i \in 1..Len(posted') :
                posted'[i].command \notin {"serverStopped", "liveServerStopped"}
          /\ UNCHANGED <<runningServers, terminals, browserLiveServerId>>]_vars
\* stop has returned false for an identifier no start ever issued, while a
\* server runs and is the live-preview target.
C6_Witness ==
    /\ lastOp.op = "stop" /\ lastOp.arg = BogusId /\ ~lastOp.ok
    /\ runningServers # <<>> /\ browserLiveServerId # NoId

\* C7: no registry entry holds a disposed terminal.
C7_NoDisposedTerminalInRegistry ==
    \A i \in 1..Len(runningServers) : runningServers[i].terminal \notin disposed
\* A stop has disposed the terminal of one server while another stays.
C7_Witness ==
    /\ lastOp.op = "stop" /\ lastOp.ok
    /\ CallsOf("dispose") # {} /\ disposed # {}
    /\ runningServers # <<>>

\* C8: a successful stop(id) of the live-preview target clears the target and
\* posts one liveServerStopped to the browser panel when it is open; a
\* successful stop of another server leaves the target and posts none.
C8_StopOfTarget ==
    [][(lastOp'.op = "stop" /\ lastOp'.ok)
       => IF browserLiveServerId = lastOp'.arg
          THEN /\ browserLiveServerId' = NoId
               /\ Cardinality({i \in 1..Len(posted') :
                                  posted'[i] = LiveServerStoppedMsg})
                      = IF browserPanel # NoPanel THEN 1 ELSE 0
          ELSE /\ browserLiveServerId' = browserLiveServerId
               /\ \A i \in 1..Len(posted') : posted'[i].command # "liveServerStopped"]_vars
\* The target was stopped and the open browser panel was told.
C8_Witness ==
    /\ lastOp.op = "stop" /\ lastOp.ok
    /\ browserLiveServerId = NoId
    /\ Posts("browser", "liveServerStopped") # {}

\* C9: a start that creates an entry posts exactly one serverStarted, with the
\* new identifier and the entry's port, mode, folder and start time, to each
\* of the sidebar view, the detached panel and the browser panel that exists.
C9_StartedToEverySurface ==
    (lastOp.op = "start" /\ lastOp.created /\ lastOp.ok)
    => \A s \in Surfaces :
          SurfaceOpen(s)
          => Cardinality({i \in 1..Len(posted) :
                            posted[i] = ServerStartedMsg(s, lastOp.entry)}) = 1

\* C10: a successful stop(id) posts exactly one serverStopped with that
\* identifier to each of the sidebar view, the detached panel and the browser
\* panel that exists.
C10_StoppedToEverySurface ==
    (lastOp.op = "stop" /\ lastOp.ok)
    => \A s \in Surfaces :
          SurfaceOpen(s)
          => Cardinality({i \in Posts(s, "serverStopped") :
                            posted[i].serverId = lastOp.arg}) = 1

\* C11: a start that finds no entry for the requested (port, mode) and no
\* workspace folder open returns failure, creates no terminal, leaves the
\* registry, the terminal map and the live-preview target as they were and
\* posts no serverStarted.
C11_NoWorkspaceStart ==
    [][(lastOp'.op = "start" /\ lastOp'.ws = "missing" /\ EntriesFor(lastOp'.arg) = {})
       => /\ ~lastOp'.ok /\ lastOp'.entry = NoEntry
          /\ termCalls' = <<>>
          /\ UNCHANGED <<runningServers, terminals, browserLiveServerId>>
          /\ \A i \in 1..Len(posted') : posted'[i].command # "serverStarted"]_vars
\* A start has failed while another server runs and is the live-preview
\* target.
C11_Witness ==
    /\ lastOp.op = "start" /\ lastOp.ws = "missing" /\ ~lastOp.ok
    /\ EntriesFor(lastOp.arg) = {}
    /\ runningServers # <<>> /\ browserLiveServerId # NoId

\* C12: a start that returns no entry because a host call inside it raised
\* (it found no entry to reuse and did not stop at a missing workspace, or it
\* raised on the entry it found) leaves the registry, the terminal map and the
\* live-preview target as they were before the request.
C12_FailedStartChangesNothing ==
    [][(lastOp'.op = "start" /\ ~lastOp'.ok /\ lastOp'.ws # "missing")
       => UNCHANGED <<runningServers, terminals, browserLiveServerId>>]_vars

\* A stop message is handled and the interrupt or the disposal of the
\* terminal raises.
StopTerminalRaises ==
    \E fail \in {"sendText", "dispose"}, id \in StopIds, port \in PortHints :
        \/ \E src \in Panels : StopServerMsg(src, id, port, fail)
        \/ BrowserStopLiveServer(id, port, fail)

\* C13: stop(id) of an identifier the registry holds removes the entry and
\* returns true also when sending the interrupt or disposing the terminal
\* raises.
C13_StopRemovesDespiteTerminalError ==
    [][(StopTerminalRaises /\ lastOp'.op = "stop" /\ MapHas(runningServers, lastOp'.arg))
       => lastOp'.ok /\ ~MapHas(runningServers', lastOp'.arg)]_vars

\* C14: teardown leaves the registry and the terminal map empty and disposes
\* every tracked terminal, but for the one whose disposal raised.
C14_TeardownClearsDespiteError ==
    [][lastOp'.op = "dispose"
       => /\ runningServers' = <<>> /\ terminals' = <<>>
          /\ Cardinality({i \in 1..Len(terminals) : terminals[i].terminal \notin disposed'}) <= 1]_vars

\* A start message carrying one of `ports` is handled with a workspace open.
StartWithPortIn(ports) ==
    \E port \in ports :
        \/ \E src \in Panels :
              \/ ServeDev(src, port, Undefined, TRUE, now, "none")
              \/ ServeProd(src, port, Undefined, TRUE, now, "none")
              \/ ServeCustom(src, port, TRUE, now, "none")
              \/ StartLiveServer(src, port, TRUE, now, "none")
        \/ \E mode \in WideModes : BrowserStartLiveServer(port, mode, Undefined, TRUE, now, "none")

\* C15: a start whose message carries port 0, 99999 or the empty string
\* records its entry under the default port of the entry's mode.
C15_DegeneratePortGetsDefault ==
    [][(lastOp'.op = "start" /\ lastOp'.created
        /\ StartWithPortIn({Num(0), Num(99999), Str(<<>>)}))
       => lastOp'.entry.port = DefaultPortOf(lastOp'.entry.mode)]_vars

\* C16: every entry of the registry has a port in 1..65535, whatever port
\* value the message carried and whichever surface sent it.
C16_PortInRange ==
    \A i \in 1..Len(runningServers) : runningServers[i].port \in MinPort..MaxPort
\* Two entries were recorded at the two ends of the range.
C16_Witness ==
    /\ \E i \in 1..Len(runningServers) : runningServers[i].port = MinPort
    /\ \E i \in 1..Len(runningServers) : runningServers[i].port = MaxPort

\* A message that starts a dev server and carries no port is handled with a
\* workspace open.
DevStartWithoutPort ==
    \E clock \in Clock, folder \in FolderInputs :
        \/ \E src \in Panels :
              \/ ServeDev(src, Undefined, folder, TRUE, clock, "none")
              \/ StartLiveServer(src, Undefined, TRUE, clock, "none")
        \/ BrowserStartLiveServer(Undefined, Undefined, folder, TRUE, clock, "none")

\* C17: on an empty registry each message that starts a dev server without a
\* port creates one entry with port 3050 and mode dev, and every serverStarted
\* it posts carries port 3050.
C17_DevDefaultPort ==
    [][(runningServers = <<>> /\ lastOp'.op = "start" /\ DevStartWithoutPort)
       => /\ Len(runningServers') = 1
          /\ PairOf(runningServers'[1]) = Pair(DEV, DefaultDevPort)
          /\ \A i \in 1..Len(posted') :
                posted'[i].command = "serverStarted" => posted'[i].port = Num(DefaultDevPort)]_vars

\* C18: a start that creates a server sends a command with the port flag
\* when its message carried a port, and the short form without a port flag
\* when it carried none.
C18_PortFlagIffPortGiven ==
    [][(lastOp'.op = "start" /\ lastOp'.created /\ lastOp'.ok)
       => /\ StartWithPortIn(WidePorts \ {Undefined, Str(<<>>), Str(<<" ">>)})
             => \A i \in 1..Len(termCalls') :
                   termCalls'[i].op = "sendText"
                   => termCalls'[i].text.form = "npx htflow serve <mode> -p"
          /\ StartWithPortIn({Undefined})
             => \A i \in 1..Len(termCalls') :
                   termCalls'[i].op = "sendText"
                   => termCalls'[i].text.form # "npx htflow serve <mode> -p"]_vars

\* The port has an entry in the port mapping of the browser panel.
Mapped(mapping, port) == \E i \in 1..Len(mapping) : mapping[i].extensionHostPort = port

\* C19: a start that matches an entry leaves the registry and the terminal
\* map unchanged; with origin browser it makes that entry the live-preview
\* target and its port is mapped in the browser panel, if there is one; with
\* another origin the target and the port mapping are unchanged.
C19_ReuseFrame ==
    [][(lastOp'.op = "start" /\ EntriesFor(lastOp'.arg) # {})
       => LET e == runningServers[CHOOSE i \in EntriesFor(lastOp'.arg) : TRUE]
          IN  /\ UNCHANGED <<runningServers, terminals>>
              /\ IF lastOp'.origin = "browser"
                 THEN /\ browserLiveServerId' = e.serverId
                      /\ browserPanel # NoPanel => Mapped(portMapping', e.port)
                      /\ \A i \in 1..Len(portMapping) : portMapping'[i] = portMapping[i]
                 ELSE UNCHANGED <<browserLiveServerId, portMapping>>]_vars
\* A browser-origin start has reused an entry a sidebar-origin start made:
\* the entry is now the target and its port is mapped.
C19_Witness ==
    /\ lastOp.op = "start" /\ lastOp.ok /\ ~lastOp.created
    /\ lastOp.origin = "browser" /\ lastOp.entry.origin = "sidebar"
    /\ browserLiveServerId = lastOp.entry.serverId
    /\ Mapped(portMapping, lastOp.entry.port)

\* C20: a start that creates an entry schedules one open-in-browser action
\* for the entry's port when its origin is not browser; with origin browser it
\* schedules none, makes the new identifier the live-preview target and maps
\* the port in the browser panel, if there is one.  A start that creates no
\* entry schedules nothing, and the scheduled action opens the port it was
\* scheduled for.
C20_OpenInBrowserScheduling ==
    [][/\ lastOp'.op = "start"
          => IF lastOp'.created /\ lastOp'.ok
             THEN IF lastOp'.origin # "browser"
                  THEN /\ timers' = Append(timers, lastOp'.entry.port)
                       /\ UNCHANGED <<browserLiveServerId, portMapping>>
                  ELSE /\ timers' = timers
                       /\ browserLiveServerId' = lastOp'.entry.serverId
                       /\ browserPanel # NoPanel => Mapped(portMapping', lastOp'.entry.port)
             ELSE timers' = timers
       /\ lastOp'.op = "openInBrowser"
          => timers # <<>> /\ lastOp'.entry.port = Head(timers) /\ timers' = Tail(timers)]_vars
\* A browser-origin start has created an entry while the timer of an earlier
\* sidebar-origin start is pending.
C20_Witness ==
    /\ lastOp.op = "start" /\ lastOp.created /\ lastOp.ok /\ lastOp.origin = "browser"
    /\ Len(timers) = 1
    /\ browserLiveServerId = lastOp.entry.serverId
    /\ Mapped(portMapping, lastOp.entry.port)

\* The ports an open-in-browser action can be scheduled for.
TimerPorts == {DefaultDevPort, DefaultStartPort}

\* C21: a scheduled open-in-browser action is never cancelled.  The pending
\* actions change only by a start scheduling one more or by the oldest one
\* firing, whatever is stopped or torn down meanwhile, and every pending
\* action eventually fires for its port.
C21_TimerNeverCancelled ==
    /\ [][\/ timers' = timers
          \/ \E p \in TimerPorts : timers' = Append(timers, p) /\ lastOp'.op = "start"
          \/ /\ timers # <<>> /\ timers' = Tail(timers)
             /\ lastOp'.op = "openInBrowser" /\ lastOp'.entry.port = Head(timers)]_vars
    /\ \A p \in TimerPorts :
          (timers # <<>> /\ Head(timers) = p)
              ~> (lastOp.op = "openInBrowser" /\ lastOp.entry.port = p)
    /\ <>[](timers = <<>>)
\* The action has fired after its server was stopped and the extension torn
\* down: no registry entry exists for its port.
C21_Witness ==
    /\ lastOp.op = "openInBrowser"
    /\ ~active /\ runningServers = <<>>
    /\ disposed # {}

\* The ports a server can be recorded under in this model.
MappablePorts == {MinPort, DefaultOtherPort, DefaultDevPort, DefaultStartPort, MaxPort}

\* C22: ensureBrowserPortMapping is idempotent on every reachable state, and
\* the port-mapping table holds at most one entry for each port, each entry
\* mapping a webview port to the same host port.
C22_EnsureMappingIdempotent ==
    /\ \A p \in MappablePorts :
          LET once == EnsureBrowserPortMapping(browserPanel, portMapping, p)
          IN  /\ EnsureBrowserPortMapping(browserPanel, once, p) = once
              /\ browserPanel # NoPanel => Mapped(once, p)
    /\ \A i, j \in 1..Len(portMapping) :
          portMapping[i].extensionHostPort = portMapping[j].extensionHostPort => i = j
    /\ \A i \in 1..Len(portMapping) :
          portMapping[i].webviewPort = portMapping[i].extensionHostPort
\* The port of a browser-origin server was ensured a second time by a start
\* that reused it: the table still holds it once.
C22_Witness ==
    /\ lastOp.op = "start" /\ lastOp.ok /\ ~lastOp.created
    /\ lastOp.origin = "browser" /\ lastOp.entry.origin = "browser"
    /\ browserPanel # NoPanel
    /\ Len(portMapping) = 1 /\ portMapping[1].extensionHostPort = lastOp.entry.port

\* C23: while one browser panel stays open its port-mapping table only
\* grows, whatever operation runs, so the port of a stopped server stays
\* mapped; and while no browser panel is open nothing is mapped.
C23_MappingOnlyGrows ==
    [][/\ (browserPanel # NoPanel /\ browserPanel' = browserPanel)
          => /\ Len(portMapping') >= Len(portMapping)
             /\ \A i \in 1..Len(portMapping) : portMapping'[i] = portMapping[i]
       /\ (browserPanel = NoPanel /\ browserPanel' = NoPanel)
          => portMapping' = portMapping]_vars
\* A server was stopped while the browser panel is open: its port is still
\* mapped.
C23_Witness ==
    /\ lastOp.op = "stop" /\ lastOp.ok
    /\ browserPanel # NoPanel
    /\ Mapped(portMapping, lastOp.entry.port)
    /\ ~MapHas(runningServers, lastOp.arg)

\* C24: the handler of the sidebar view and the handler of the detached panel
\* are the same table: for every command name and payload, in every state,
\* both make the same call with the same arguments, so they reach the same
\* registry, terminal map and live-preview target; a command name no table
\* has is acknowledged with a notification, a step that changes no state of
\* the provider.
C24_HandlersAgree ==
    /\ [](\A message \in AllMessages :
             /\ ViewCall(message) = PanelCall(message)
             /\ message.command \in {"htflow.deploy", ""}
                => ViewCall(message) = Call("showInformationMessage",
                                            <<"HTFlow: " \o message.command>>))
    /\ [][lastOp'.op = "showInformationMessage"
          => UNCHANGED <<runningServers, terminals, browserLiveServerId, view, currentPanel,
                         browserPanel, portMapping, disposed, inflight, timers, captures>>]_vars
\* The detached panel, alone, has sent a command no table has while a server
\* runs: it was acknowledged.
C24_Witness ==
    /\ lastOp.op = "showInformationMessage" /\ lastOp.arg = "HTFlow: htflow.deploy"
    /\ ~view /\ currentPanel
    /\ runningServers # <<>>

\* The result broadcast a step made, "none" when it made none.
Broadcast ==
    CASE lastOp.op = "fileChanged" -> "fileChanged"
      [] lastOp.op = "settle" -> lastOp.ws
      [] OTHER -> "none"

\* C25: each fileChanged, commandResults and auditResults broadcast is posted
\* to every one of the three surfaces (sidebar view, detached panel, browser
\* panel) that exists when it is sent, and to no surface that does not exist.
C25_BroadcastToEverySurface ==
    Broadcast # "none"
    => /\ \A s \in Surfaces : SurfaceOpen(s) => Posts(s, Broadcast) # {}
       /\ \A i \in 1..Len(posted) : SurfaceOpen(posted[i].to)

\* What a result message reports: the data of commandResults, the message
\* itself for auditResults.
ResultOf(msg) == IF msg.command = "commandResults" THEN msg.data ELSE msg
NonEmpty(v) == v.t = "str" /\ v.s # <<>>
\* stdout when it is non-empty, otherwise stderr when it is non-empty,
\* otherwise `last`
FirstOutput(r, last) ==
    IF NonEmpty(r.stdout) THEN r.stdout ELSE IF NonEmpty(r.stderr) THEN r.stderr ELSE last
SentinelOf(variant) == IF variant = "commandResults" THEN NoOutputCommand ELSE NoOutputAudit
SettledOk == lastOp.op = "settle" /\ lastOp.ok

\* C26, as stated: for a captured command that succeeds, the reported output
\* is stdout when non-empty, otherwise stderr when non-empty, otherwise the
\* sentinel text, and the result has success = true and exit code 0, for
\* commandResults and for auditResults alike.
C26_SuccessResultBothVariants ==
    SettledOk
    => \A i \in 1..Len(posted) :
          LET result == ResultOf(posted[i])
          IN  /\ result.output = FirstOutput(lastOp.arg, SentinelOf(lastOp.ws))
              /\ {"success", "exitCode"} \subseteq DOMAIN result
              /\ result.success = TRUE
              /\ result.exitCode = Num(0)

\* C26, amended: for a captured command that succeeds, the output posted to
\* the sidebar view and to the detached panel is stdout when non-empty,
\* otherwise stderr when non-empty, otherwise the sentinel text of the
\* variant; a commandResults result has success = true and exit code 0, an
\* auditResults message carries the output alone.
C26_SuccessResult ==
    SettledOk
    => /\ view => Posts("view", lastOp.ws) # {}
       /\ currentPanel => Posts("panel", lastOp.ws) # {}
       /\ \A i \in 1..Len(posted) :
             /\ posted[i].command = lastOp.ws
             /\ ResultOf(posted[i]).output = FirstOutput(lastOp.arg, SentinelOf(lastOp.ws))
             /\ IF lastOp.ws = "commandResults"
                THEN posted[i].data.success = TRUE /\ posted[i].data.exitCode = Num(0)
                ELSE DOMAIN posted[i] = {"to", "command", "output"}
\* An audit has succeeded with nothing on stdout and a text on stderr: both
\* the sidebar view and the detached panel are sent the text of stderr.
C26_Witness ==
    /\ SettledOk /\ lastOp.ws = "auditResults"
    /\ ~NonEmpty(lastOp.arg.stdout) /\ NonEmpty(lastOp.arg.stderr)
    /\ Len(posted) = 2 /\ posted[1].output = lastOp.arg.stderr

\* C27: for a captured command that fails, no exception leaves the handler:
\* a result with success = false is posted to the existing surfaces, whose
\* output is the failed process's stdout if non-empty, else its stderr, else
\* the error message, and whose exit code is the reported code, or 1 when
\* none was reported.
C27_FailureResult ==
    (lastOp.op = "settle" /\ ~lastOp.ok /\ lastOp.ws = "commandResults")
    => \A s \in Surfaces :
          SurfaceOpen(s)
          => \E i \in Posts(s, "commandResults") :
                /\ posted[i].data.success = FALSE
                /\ posted[i].data.output = FirstOutput(lastOp.arg, lastOp.arg.message)
                /\ posted[i].data.exitCode =
                      (IF lastOp.arg.code = Undefined THEN Num(1) ELSE lastOp.arg.code)

\* C28: every invocation of a captured command opens exactly one visible
\* terminal and sends it the command string the capturing child process
\* runs, in the step that starts the child process, so before the capture
\* settles and also when it never does; the step in which a capture settles
\* makes no terminal call.  An invocation without a workspace folder is
\* refused before either happens.
C28_TerminalEchoesCapture ==
    [][/\ (lastOp'.op = "capture" /\ lastOp'.ok)
          => /\ Len(captures') = Len(captures) + 1
             /\ SubSeq(captures', 1, Len(captures)) = captures
             /\ LET c == captures'[Len(captures')]
                    created == {i \in 1..Len(termCalls') : termCalls'[i].op = "createTerminal"}
                    sent == {i \in 1..Len(termCalls') : termCalls'[i].op = "sendText"}
                IN  /\ Cardinality(created) = 1 /\ Cardinality(sent) = 1
                    /\ termCalls'[1] = TermCall("createTerminal", c.terminal, NoText)
                    /\ termCalls'[2] = TermCall("show", c.terminal, NoText)
                    /\ termCalls'[3] = TermCall("sendText", c.terminal, c.commandText)
                    /\ \A j \in 1..Len(captures) : captures[j].terminal # c.terminal
       /\ (lastOp'.op = "capture" /\ ~lastOp'.ok)
          => captures' = captures /\ termCalls' = <<>>
       /\ lastOp'.op = "settle"
          => Len(captures') = Len(captures) - 1 /\ termCalls' = <<>>]_vars
\* A second captured command was invoked while the first has not settled:
\* each has its own terminal, sent its own command line.
C28_Witness ==
    /\ lastOp.op = "capture" /\ lastOp.ok
    /\ Len(captures) = 2
    /\ captures[1].variant # captures[2].variant
    /\ Len(termCalls) = 3 /\ termCalls[3].text = captures[2].commandText

\* C29: between its creation and its removal a registry entry's port, mode,
\* folder, start time, terminal and origin never change, also when a start
\* request with another origin or folder reuses it; and an entry leaves the
\* registry only through stop or teardown.
C29_EntryImmutable ==
    [][/\ \A i \in 1..Len(runningServers) :
             LET e == runningServers[i]
             IN  \/ MapHas(runningServers', e.serverId)
                    /\ runningServers'[IndexOf(runningServers', e.serverId)] = e
                 \/ ~MapHas(runningServers', e.serverId)
                    /\ \/ lastOp'.op = "stop" /\ lastOp'.arg = e.serverId
                       \/ lastOp'.op = "dispose"]_vars
\* A start from the browser has reused the entry a start from the sidebar
\* created: the entry is in the registry as it was created.
C29_Witness ==
    /\ lastOp.op = "start" /\ lastOp.ok /\ ~lastOp.created
    /\ lastOp.origin = "browser" /\ lastOp.entry.origin = "sidebar"
    /\ GetServer(lastOp.entry.serverId) = lastOp.entry

\* C30: server identifiers are unique: a start that creates an entry never
\* issues an identifier an earlier start of the session issued, in particular
\* not the identifier of the server the step before it stopped, when the same
\* (port, mode) is restarted within the same clock tick.
C30_IdentifiersUnique ==
    [][(lastOp'.op = "start" /\ lastOp'.ok /\ lastOp'.created)
       => ~(lastOp.op = "stop" /\ lastOp.ok /\ lastOp.arg = lastOp'.entry.serverId)]_vars

\* The entries a step removes from the registry.
Removed == {i \in 1..Len(runningServers) : ~MapHas(runningServers', runningServers[i].serverId)}

\* C31: a stopLiveServer message of the browser panel that carries a port and
\* no server identifier stops a server whose entry has that port, when there
\* is one, and stops no server bound to another port, whatever the
\* live-preview target is.
C31_StopByPort ==
    [][\A port \in PortHints \ {Undefined} :
          BrowserStopLiveServer(NoId, port, "none")
          => /\ \A i \in Removed : runningServers[i].port = port.int
             /\ (\E i \in 1..Len(runningServers) : runningServers[i].port = port.int)
                => \E i \in Removed : runningServers[i].port = port.int]_vars

\* C32: the serverStopped message of a successful stop carries the port of
\* the registry entry that was removed, also when the request supplied a port
\* hint that differs from it.
C32_StoppedCarriesEntryPort ==
    (lastOp.op = "stop" /\ lastOp.ok /\ lastOp.entry # NoEntry)
    => \A i \in 1..Len(posted) :
          posted[i].command = "serverStopped" => posted[i].port = Num(lastOp.entry.port)

\* C33: each browserReady message is answered with exactly one message to the
\* browser panel: liveServerStarted, with the target's identifier, port and
\* mode, if and only if the live-preview target is set and in the registry,
\* and then the target's port is in the panel's port mapping afterwards;
\* otherwise liveServerStopped, and no target is set afterwards.
C33_BrowserReadyAnswer ==
    [][lastOp'.op = "browserReady"
       => LET target == browserLiveServerId
              live == target # NoId /\ MapHas(runningServers, target)
              e == GetServer(target)
          IN  /\ Len(posted') = 1 /\ posted'[1].to = "browser"
              /\ posted'[1].command = "liveServerStarted" <=> live
              /\ live => /\ posted'[1] = LiveServerStartedMsg(target, e.port, e.mode)
                         /\ Mapped(portMapping', e.port)
                         /\ browserLiveServerId' = target
              /\ ~live => /\ posted'[1].command = "liveServerStopped"
                          /\ browserLiveServerId' = NoId
              /\ UNCHANGED <<runningServers, terminals>>]_vars
\* A browser panel opened after its server was started has reported ready:
\* it is told of the target, whose port is now mapped.
C33_Witness ==
    /\ lastOp.op = "browserReady" /\ lastOp.ok
    /\ posted[1].command = "liveServerStarted"
    /\ browserLiveServerId = lastOp.entry.serverId
    /\ portMapping = <<[webviewPort |-> lastOp.entry.port, extensionHostPort |-> lastOp.entry.port]>>

\* C34: each startLiveServer message of the browser panel is answered with
\* liveServerStarted or liveServerError; liveServerStarted is sent only if,
\* when it is sent, the registry holds an entry with the reported identifier,
\* port and mode and that identifier is the live-preview target, and
\* liveServerError only if the request created and reused no entry.
C34_LiveAnswerIsCurrent ==
    lastOp.op = "resume"
    => \A i \in 1..Len(posted) :
          /\ posted[i].command = "liveServerStarted"
             => /\ MapHas(runningServers, posted[i].serverId)
                /\ Num(GetServer(posted[i].serverId).port) = posted[i].port
                /\ GetServer(posted[i].serverId).mode = posted[i].mode
                /\ browserLiveServerId = posted[i].serverId
          /\ posted[i].command = "liveServerError" => ~lastOp.ok

\* C35: after every completed handler step the terminal map and the registry
\* hold the same identifiers, and the terminal the terminal map holds for an
\* identifier is the terminal recorded in that identifier's registry entry.
C35_TerminalMapMatchesRegistry ==
    /\ Keys(terminals) = Keys(runningServers)
    /\ \A i \in 1..Len(runningServers) : GetTerminal(runningServers[i].serverId) = runningServers[i].terminal

\* A stop has removed one of two servers: one identifier is left in both maps.
C35_Witness ==
    /\ lastOp.op = "stop"
    /\ lastOp.ok
    /\ lastOp.entry # NoEntry
    /\ Len(runningServers) = 1
    /\ Len(terminals) = 1

\* The entries of the registry bound to a port.
OnPort(servers, port) == {servers[i] : i \in {k \in 1..Len(servers) : servers[k].port = port}}

\* C36: a start for port P and mode M2 while the registry holds an entry for
\* P with another mode and none for (P, M2) does not reuse that entry: with a
\* workspace open it adds a second entry for P with a terminal of its own, and
\* a lookup of P without a mode then returns one of the entries for P.
C36_OtherModeNotReused ==
    [][LET mode == lastOp'.arg[1]
           port == lastOp'.arg[2]
           new == lastOp'.entry
       IN  (/\ lastOp'.op = "start"
            /\ OnPort(runningServers, port) # {}
            /\ \A e \in OnPort(runningServers, port) : e.mode # mode)
           => /\ lastOp'.ws # "unread"
              /\ lastOp'.ws = "open"
                 => /\ lastOp'.ok /\ lastOp'.created
                    /\ new.port = port /\ new.mode = mode
                    /\ ~MapHas(runningServers, new.serverId)
                    /\ runningServers' = Append(runningServers, new)
                    /\ terminals' = Append(terminals, [serverId |-> new.serverId, terminal |-> new.terminal])
                    /\ \A i \in 1..Len(runningServers) : runningServers[i].terminal # new.terminal
                    /\ Cardinality(OnPort(runningServers', port)) >= 2
                    /\ \A e \in OnPort(runningServers, port) :
                          FindRunningServerByPort(e.port, <<>>)' \in OnPort(runningServers', e.port)]_vars
\* The registry holds a development and a production server on one port, the
\* second just created; the lookup by port alone returns the older one.
C36_Witness ==
    /\ lastOp.op = "start" /\ lastOp.ok /\ lastOp.created
    /\ Len(runningServers) = 2
    /\ runningServers[1].port = runningServers[2].port
    /\ runningServers[1].mode # runningServers[2].mode
    /\ runningServers[1].terminal # runningServers[2].terminal
    /\ runningServers[2] = lastOp.entry
    /\ FindRunningServerByPort(lastOp.entry.port, <<>>) = runningServers[1]

\* C37: a start of browser origin that makes another server the live-preview
\* target does not stop the previous target: its registry entry and its
\* terminal-map entry are unchanged, no host call is made on its terminal, and
\* the step posts no serverStopped and no liveServerStopped.
C37_RetargetKeepsPrevious ==
    [][(/\ lastOp'.op = "start" /\ lastOp'.origin = "browser"
        /\ browserLiveServerId # NoId
        /\ browserLiveServerId' \notin {NoId, browserLiveServerId})
       => /\ \A i \in 1..Len(runningServers) :
                runningServers[i].serverId = browserLiveServerId
                => /\ i <= Len(runningServers') /\ runningServers'[i] = runningServers[i]
                   /\ \A k \in 1..Len(termCalls') : termCalls'[k].terminal # runningServers[i].terminal
          /\ \A i \in 1..Len(terminals) :
                terminals[i].serverId = browserLiveServerId
                => i <= Len(terminals') /\ terminals'[i] = terminals[i]
          /\ \A i \in 1..Len(posted') :
                posted'[i].command \notin {"serverStopped", "liveServerStopped"}]_vars
\* A second start from the browser panel has created the new target; the
\* first server the panel started is still in the registry and terminal map.
C37_Witness ==
    /\ lastOp.op = "start" /\ lastOp.origin = "browser" /\ lastOp.ok /\ lastOp.created
    /\ Len(runningServers) = 2 /\ Len(terminals) = 2
    /\ runningServers[1].origin = "browser"
    /\ runningServers[2] = lastOp.entry
    /\ browserLiveServerId = lastOp.entry.serverId
    /\ browserPanel # NoPanel

\* C38: whenever the host shows a browser panel, the provider's browser-panel
\* reference designates a panel the host shows, also after the disposal
\* callback of a panel that openBrowserPanel replaced has run: the callback
\* of a replaced panel does not clear the reference to its successor.
C38_ReferenceDesignatesOpenPanel ==
    hostPanels.open # {} => browserPanel \in hostPanels.open

====
